---- MODULE Spec2Model ----
(***************************************************************************)
(* Model of the backtest simulator (src/backtest.py, BacktestEngine) and   *)
(* of the decision layer of the technical analyzer it drives               *)
(* (src/strategy.py, TechnicalStrategy.analyze_trend).                     *)
(*                                                                         *)
(* Units.  Prices are whole yuan, money is in fen (1/100 yuan), share      *)
(* volumes are shares.  A signal strength is an integer number of 1/200    *)
(* (0.005): every product sub-strength * weight of analyze_trend is a      *)
(* multiple of 0.005.  Ratios of the trading configuration are in tenths.  *)
(* Python floats are modelled by exact rational arithmetic.                *)
(*                                                                         *)
(* The bar series is read-only input.  The model fixes the content of bar  *)
(* i when the loop of run_backtest first reads it and records it in df, so *)
(* that a later run over the same data replays the same series.  Of a bar  *)
(* the model keeps the close price and the outcomes of the five            *)
(* sub-analyses of analyze_trend on the history ending at that bar (the    *)
(* indicator arithmetic itself is not modelled here).                      *)
(***************************************************************************)
EXTENDS Integers, Sequences, FiniteSets, TLC

VARIABLES
    config,            \* TRADING_CONFIG used by the engine
    pc,                \* position of run_backtest
    run,               \* number of run_backtest calls started on this engine
    df,                \* bars of the series read so far (replayed by later runs)
    df_complete,       \* TRUE once the length of the series is known
    df_kind,           \* what get_market_data returned / the type of df.index
    i,                 \* loop variable of run_backtest (0-based bar index)
    current_capital,   \* self.current_capital, in fen
    current_position,  \* self.current_position
    trades,            \* self.trades
    daily_equity,      \* self.daily_equity
    daily_returns,     \* self.daily_returns
    stop_action,       \* local stop_action of run_backtest
    signal,            \* local signal of run_backtest
    now,               \* wall clock read by datetime.now()
    result,            \* value returned by the last completed run
    prev_result,       \* value returned by the run before it
    call,              \* the last call made to a component outside the simulator
    ret,               \* what that call returned
    trader,            \* the StockTrader instance and the operation running on it
    broker,            \* the broker terminal the trader is connected to
    live               \* the AutoTradingSystem instance and its clock

vars == <<config, pc, run, df, df_complete, df_kind, i, current_capital,
          current_position, trades, daily_equity, daily_returns,
          stop_action, signal, now, result, prev_result, call, ret,
          trader, broker, live>>

\* the state of the live trading side
trading == <<trader, broker, live>>

\* the state of the simulator
backtest == <<config, pc, run, df, df_complete, df_kind, i, current_capital,
              current_position, trades, daily_equity, daily_returns,
              stop_action, signal, now, result, prev_result>>

engine == <<current_capital, current_position, trades, daily_equity, daily_returns>>

(***************************************************************************)
(* Bounds of the model.                                                    *)
(***************************************************************************)
MaxTail == 3          \* bars of a series beyond the first MinBars - 1
MaxClock == 1         \* last wall-clock instant (the first is 0)
MaxRuns == 2          \* runs on one engine instance
MaxTradeCount == 2    \* orders counted by the live engine between two daily resets

(***************************************************************************)
(* Program constants.                                                      *)
(***************************************************************************)
MinBars == 20                 \* bars needed before any decision is taken
LotSize == 100                \* shares per lot
InitialCapital == 10000000    \* initial_capital = 100000.0 yuan, in fen
CommissionRate == 3           \* commission_rate = 0.0003, in 1/10000
StrengthScale == 200          \* strength unit is 1/200
StrongSellStrength == 160     \* 0.8
MediumSellStrength == 100     \* 0.5
StrongThreshold == 120        \* strong_threshold = 0.6
WeakThreshold == 60           \* weak_threshold = 0.3

NoPosition == [volume |-> 0]
NoSignal == [signal_type |-> "none"]
NoResult == [status |-> "none"]
NoCall == [op |-> "none"]

Min(a, b) == IF a <= b THEN a ELSE b

\* floor(a * n / d) for a, n >= 0 and d > 0, without forming a * n
MulDiv(a, n, d) == (a \div d) * n + ((a % d) * n) \div d

(***************************************************************************)
(* Trading configuration (config.py: TRADING_CONFIG).                      *)
(***************************************************************************)
StopLossPct == 5              \* stop_loss_ratio = 0.05
TakeProfitPct == 8            \* take_profit_ratio = 0.08

TradingConfigs ==
    { [position_ratio |-> 5,  max_single_position |-> 3],
      [position_ratio |-> 20, max_single_position |-> 10] }

(***************************************************************************)
(* Technical analyzer, decision layer.  A sub-analysis returns a direction *)
(* and a strength in tenths; the sets below are the return statements of   *)
(* the five sub-analyzers.                                                 *)
(***************************************************************************)
Sub(s, t) == [sig |-> s, str |-> t]

MaOutcomes   == {Sub("buy", 8), Sub("sell", 8), Sub("buy", 5), Sub("sell", 5), Sub("hold", 0)}
RsiOutcomes  == {Sub("buy", 7), Sub("sell", 7), Sub("buy", 5), Sub("sell", 5), Sub("hold", 0)}
MacdOutcomes == {Sub("buy", 6), Sub("sell", 6), Sub("buy", 3), Sub("sell", 3), Sub("hold", 0)}
BbOutcomes   == {Sub("buy", 6), Sub("sell", 6), Sub("buy", 2), Sub("sell", 2), Sub("hold", 0)}
VolOutcomes  == {Sub("buy", 4), Sub("sell", 4), Sub("hold", 1), Sub("sell", 2), Sub("buy", 2), Sub("hold", 0)}

\* an analysis is the five outcomes in the order ma, rsi, macd, bb, vol
Analysis(ma, rsi, macd, bb, vol) == <<ma, rsi, macd, bb, vol>>

\* weights 0.3, 0.2, 0.25, 0.15, 0.1 in units of 0.05
Weights == <<6, 4, 5, 3, 2>>

SignalStrength(a) ==
    a[1].str * Weights[1] + a[2].str * Weights[2] + a[3].str * Weights[3]
        + a[4].str * Weights[4] + a[5].str * Weights[5]

Count(a, s) == Cardinality({k \in 1..5 : a[k].sig = s})

\* variant of _combine_signals in which equal vote counts go to the buy side
_combine_signals_ties_buy(a, signal_strength) ==
    LET buy_count == Count(a, "buy")
        sell_count == Count(a, "sell")
    IN  IF signal_strength >= StrongThreshold
        THEN IF buy_count >= sell_count THEN "strong_buy" ELSE "strong_sell"
        ELSE IF signal_strength >= WeakThreshold
        THEN IF buy_count >= sell_count THEN "buy" ELSE "sell"
        ELSE "hold"

\* TechnicalStrategy._combine_signals on the five sub-signals
_combine_signals(a, signal_strength) ==
    LET buy_count == Count(a, "buy")
        sell_count == Count(a, "sell")
    IN  IF signal_strength >= StrongThreshold
        THEN IF buy_count > sell_count THEN "strong_buy"
             ELSE IF sell_count > buy_count THEN "strong_sell"
             ELSE "hold"
        ELSE IF signal_strength >= WeakThreshold
        THEN IF buy_count > sell_count THEN "buy"
             ELSE IF sell_count > buy_count THEN "sell"
             ELSE "hold"
        ELSE "hold"

analyze_trend(a) ==
    [signal_type |-> _combine_signals(a, SignalStrength(a)),
     signal_strength |-> SignalStrength(a)]

\* _generate_signal on the history ending at bar b
_generate_signal(b) == analyze_trend(b.analysis)

(***************************************************************************)
(* Input: the bars a series is made of.                                    *)
(***************************************************************************)
Prices == {0, 100, 110}
WarmupPrice == 100

Hold0 == Sub("hold", 0)

Analyses ==
    { Analysis(Sub("buy", 8), Sub("sell", 7), Hold0, Hold0, Hold0),               \* tie: hold, 0.38
      Analysis(Sub("buy", 8), Sub("buy", 7), Sub("buy", 6), Sub("buy", 6), Sub("buy", 4)),       \* strong_buy, 0.66
      Analysis(Sub("sell", 5), Hold0, Sub("sell", 6), Hold0, Hold0),              \* sell, 0.30
      Analysis(Sub("sell", 8), Sub("sell", 7), Sub("sell", 6), Sub("sell", 6), Sub("sell", 4)) } \* strong_sell, 0.66

Bar(c, a) == [close |-> c, analysis |-> a]

\* variant of EnoughHistory that is off by one
EnoughHistoryOffByOne(n) == n >= MinBars - 1

\* not (len(current_data) < 20), for a history of n bars
EnoughHistory(n) == n >= MinBars

\* the bars that can stand at 0-based index k of a series
InputBars(k) ==
    IF k + 1 < MinBars
    THEN {Bar(WarmupPrice, Analysis(Hold0, Hold0, Hold0, Hold0, Hold0))}
    ELSE {Bar(c, a) : c \in Prices, a \in Analyses}

MaxBars == MinBars - 1 + MaxTail

(***************************************************************************)
(* BacktestEngine: the operations on cash, position and trade log.  Each   *)
(* takes the engine fields it reads and returns the fields it writes.      *)
(***************************************************************************)
Book(cap, pos, trs) == [capital |-> cap, position |-> pos, trades |-> trs]

Position(vol, avg, mv, upnl) ==
    [volume |-> vol, avg_price |-> avg, market_value |-> mv, unrealized_pnl |-> upnl]

Trade(ts, act, price, vol, amount, comm, reason) ==
    [timestamp |-> ts, action |-> act, price |-> price, volume |-> vol,
     amount |-> amount, commission |-> comm, reason |-> reason]

\* amount of vol shares at price, in fen
Amount(vol, price) == vol * price * 100

\* amount * commission_rate, in fen (exact: vol is a multiple of LotSize)
Commission(vol, price) == (Amount(vol, price) * CommissionRate) \div 10000

\* min(position_ratio * signal_strength, max_single_position), in 1/2000
PositionRatio(cfg, signal_strength) ==
    Min(cfg.position_ratio * signal_strength,
        cfg.max_single_position * StrengthScale)

\* int(available_cash * position_ratio / price / 100) * 100
BuyVolume(cfg, cap, price, signal_strength) ==
    (MulDiv(cap, PositionRatio(cfg, signal_strength), 10 * StrengthScale)
        \div (price * 100 * LotSize)) * LotSize

\* variant of _execute_buy without the check of total_cost against the cash
_execute_buy_unchecked(cfg, cap, pos, trs, ts, price, signal_strength, reason) ==
    IF price = 0
    THEN Book(cap, pos, trs)
    ELSE
    LET volume == BuyVolume(cfg, cap, price, signal_strength)
        actual_amount == Amount(volume, price)
        commission == Commission(volume, price)
        total_cost == actual_amount + commission
    IN  IF volume < LotSize THEN Book(cap, pos, trs)
        ELSE Book(cap - total_cost,
                  Position(volume, price, actual_amount, 0),
                  Append(trs, Trade(ts, "buy", price, volume, actual_amount,
                                    commission, reason)))

_execute_buy(cfg, cap, pos, trs, ts, price, signal_strength, reason) ==
    IF price = 0
    THEN Book(cap, pos, trs)       \* division by zero, caught: no trade
    ELSE
    LET volume == BuyVolume(cfg, cap, price, signal_strength)
        actual_amount == Amount(volume, price)
        commission == Commission(volume, price)
        total_cost == actual_amount + commission
    IN  IF volume < LotSize THEN Book(cap, pos, trs)
        ELSE IF total_cost > cap THEN Book(cap, pos, trs)
        ELSE Book(cap - total_cost,
                  Position(volume, price, actual_amount, 0),
                  Append(trs, Trade(ts, "buy", price, volume, actual_amount,
                                    commission, reason)))

\* sell_ratio, in percent
\* variant of SellRatio that sells everything from the medium strength on
SellRatioAllFromMedium(signal_strength) ==
    IF signal_strength >= MediumSellStrength THEN 100
    ELSE 33

SellRatio(signal_strength) ==
    IF signal_strength >= StrongSellStrength THEN 100
    ELSE IF signal_strength >= MediumSellStrength THEN 50
    ELSE 33

\* variant of SellVolume that does not round down to whole lots
SellVolumeUnrounded(volume, signal_strength) ==
    (volume * SellRatio(signal_strength)) \div 100

\* int(volume * sell_ratio / 100) * 100
SellVolume(volume, signal_strength) ==
    ((volume * SellRatio(signal_strength)) \div (100 * LotSize)) * LotSize

\* variant of _execute_sell that credits the cash with the gross amount
_execute_sell_gross(cap, pos, trs, ts, price, signal_strength, reason) ==
    IF pos = NoPosition THEN Book(cap, pos, trs)
    ELSE
    LET sell_volume == SellVolume(pos.volume, signal_strength)
        sell_amount == Amount(sell_volume, price)
        commission == Commission(sell_volume, price)
    IN  IF sell_volume < LotSize THEN Book(cap, pos, trs)
        ELSE Book(cap + sell_amount,
                  IF sell_volume = pos.volume
                  THEN NoPosition
                  ELSE [pos EXCEPT !.volume = pos.volume - sell_volume,
                                   !.market_value = Amount(pos.volume - sell_volume, price)],
                  Append(trs, Trade(ts, "sell", price, sell_volume, sell_amount,
                                    commission, reason)))

_execute_sell(cap, pos, trs, ts, price, signal_strength, reason) ==
    IF pos = NoPosition THEN Book(cap, pos, trs)
    ELSE
    LET sell_volume == SellVolume(pos.volume, signal_strength)
        sell_amount == Amount(sell_volume, price)
        commission == Commission(sell_volume, price)
        net_amount == sell_amount - commission
    IN  IF sell_volume < LotSize THEN Book(cap, pos, trs)
        ELSE Book(cap + net_amount,
                  IF sell_volume = pos.volume
                  THEN NoPosition
                  ELSE [pos EXCEPT !.volume = pos.volume - sell_volume,
                                   !.market_value = Amount(pos.volume - sell_volume, price)],
                  Append(trs, Trade(ts, "sell", price, sell_volume, sell_amount,
                                    commission, reason)))

\* StopLossManager.calculate_stop_loss_price / calculate_take_profit_price
\* for a long position, compared with current_price after scaling by 100
_check_stop_conditions(pos, current_price) ==
    IF pos = NoPosition THEN "none"
    ELSE IF current_price * 100 <= pos.avg_price * (100 - StopLossPct) THEN "stop_loss"
    ELSE IF current_price * 100 >= pos.avg_price * (100 + TakeProfitPct) THEN "take_profit"
    ELSE "none"

\* variant of _execute_trade that exits with a medium strength
_execute_trade_medium(cap, pos, trs, ts, price, action) ==
    IF action \in {"stop_loss", "take_profit"}
    THEN _execute_sell(cap, pos, trs, ts, price, MediumSellStrength, action)
    ELSE Book(cap, pos, trs)

\* _execute_trade: a stop exit is a sell of strength 1.0
_execute_trade(cap, pos, trs, ts, price, action) ==
    IF action \in {"stop_loss", "take_profit"}
    THEN _execute_sell(cap, pos, trs, ts, price, StrengthScale, action)
    ELSE Book(cap, pos, trs)

\* variant of _execute_trading_logic that buys whether or not a position is open
_execute_trading_logic_unguarded(cfg, cap, pos, trs, ts, price, sig) ==
    IF sig.signal_type \in {"buy", "strong_buy"}
    THEN _execute_buy(cfg, cap, pos, trs, ts, price, sig.signal_strength, "technical")
    ELSE IF sig.signal_type \in {"sell", "strong_sell"} /\ pos # NoPosition
    THEN _execute_sell(cap, pos, trs, ts, price, sig.signal_strength, "technical")
    ELSE Book(cap, pos, trs)

_execute_trading_logic(cfg, cap, pos, trs, ts, price, sig) ==
    IF sig.signal_type \in {"buy", "strong_buy"} /\ pos = NoPosition
    THEN _execute_buy(cfg, cap, pos, trs, ts, price, sig.signal_strength, "technical")
    ELSE IF sig.signal_type \in {"sell", "strong_sell"} /\ pos # NoPosition
    THEN _execute_sell(cap, pos, trs, ts, price, sig.signal_strength, "technical")
    ELSE Book(cap, pos, trs)

\* variant of EquityPoint that leaves the position out of the equity
EquityPointCashOnly(cap, pos, date, price) ==
    [date |-> date, equity |-> cap,
     cash |-> cap, position_value |-> Amount(pos.volume, price)]

\* the equity point _update_daily_equity appends for the bar with index date
EquityPoint(cap, pos, date, price) ==
    [date |-> date, equity |-> cap + Amount(pos.volume, price),
     cash |-> cap, position_value |-> Amount(pos.volume, price)]

\* the position after _update_daily_equity refreshed its valuation
Revalued(pos, price) ==
    IF pos = NoPosition THEN NoPosition
    ELSE [pos EXCEPT !.market_value = Amount(pos.volume, price),
                     !.unrealized_pnl = Amount(pos.volume, price)
                                            - Amount(pos.volume, pos.avg_price)]

\* the daily return (total_equity - prev_equity) / prev_equity as a fraction,
\* 0.0 for the first point
DailyReturn(eqs, total_equity) ==
    IF Len(eqs) >= 1
    THEN [num |-> total_equity - eqs[Len(eqs)].equity, den |-> eqs[Len(eqs)].equity]
    ELSE [num |-> 0, den |-> 1]

_update_daily_equity(date, price) ==
    /\ current_position' = Revalued(current_position, price)
    /\ daily_equity' = Append(daily_equity,
                              EquityPoint(current_capital, current_position, date, price))
    /\ daily_returns' = Append(daily_returns,
                               DailyReturn(daily_equity,
                                           current_capital + Amount(current_position.volume, price)))
    /\ UNCHANGED <<current_capital, trades>>

\* a / b < c / d for a, c >= 0 and b, d > 0, decided on quotients and
\* remainders so that no product of two amounts is formed
RECURSIVE FracLess(_, _, _, _)
FracLess(a, b, c, d) ==
    LET qa == a \div b
        qc == c \div d
        ra == a % b
        rc == c % d
    IN  IF qa # qc THEN qa < qc
        ELSE IF rc = 0 THEN FALSE
        ELSE IF ra = 0 THEN TRUE
        ELSE FracLess(d, rc, b, ra)

\* one pass over the equity series from point k on: peak is
\* equity_series.expanding().max() before point k and lowest the largest
\* (peak - equity) / peak so far, i.e. the minimum of (equity - peak) / peak
RECURSIVE DrawdownMin(_, _, _, _)
DrawdownMin(equity_series, k, peak, lowest) ==
    IF k > Len(equity_series) THEN lowest
    ELSE LET p == IF equity_series[k] > peak THEN equity_series[k] ELSE peak
             num == p - equity_series[k]
         IN  DrawdownMin(equity_series, k + 1, p,
                         IF FracLess(lowest.num, lowest.den, num, p)
                         THEN [num |-> num, den |-> p]
                         ELSE lowest)

\* variant of _calculate_max_drawdown that measures every fall from the
\* first equity instead of from the running peak
_calculate_max_drawdown_from_start(equity_series) ==
    LET lowest == CHOOSE k \in 1..Len(equity_series) :
                      \A j \in 1..Len(equity_series) :
                          equity_series[k] <= equity_series[j]
    IN  [num |-> equity_series[1] - equity_series[lowest], den |-> equity_series[1]]

\* abs(((equity_series - peak) / peak).min()) as the fraction num / den
_calculate_max_drawdown(equity_series) ==
    DrawdownMin(equity_series, 1, equity_series[1],
                [num |-> 0, den |-> equity_series[1]])

\* variant of LaterThan that also accepts an equal timestamp
NotEarlierThan(ts, other) == ts.t >= other.t

\* s.timestamp > buy_trade.timestamp
LaterThan(ts, other) == ts.t > other.t

\* matching_sells[0]: the index in the log, from k on, of the first sell
\* whose timestamp is later than ts; 0 when matching_sells is empty
RECURSIVE FirstMatchingSell(_, _, _)
FirstMatchingSell(trs, k, ts) ==
    IF k > Len(trs) THEN 0
    ELSE IF trs[k].action = "sell" /\ LaterThan(trs[k].timestamp, ts) THEN k
    ELSE FirstMatchingSell(trs, k + 1, ts)

\* pnl of a pair, in fen (prices are whole yuan)
PairPnl(buy_trade, sell_trade) ==
    (sell_trade.price - buy_trade.price) * Min(buy_trade.volume, sell_trade.volume) * 100
        - buy_trade.commission - sell_trade.commission

\* trade_pairs: the pnl of every buy of the log, from index k on, that has a
\* matching sell
RECURSIVE TradePairs(_, _)
TradePairs(trs, k) ==
    IF k > Len(trs) THEN <<>>
    ELSE LET rest == TradePairs(trs, k + 1)
             sell == FirstMatchingSell(trs, 1, trs[k].timestamp)
         IN  IF trs[k].action = "buy" /\ sell # 0
             THEN <<PairPnl(trs[k], trs[sell])>> \o rest
             ELSE rest

RECURSIVE SumSeq(_, _)
SumSeq(xs, k) == IF k > Len(xs) THEN 0 ELSE xs[k] + SumSeq(xs, k + 1)

\* 0.0, float('inf') and total_wins / total_losses
ZeroFactor == [kind |-> "zero"]
InfFactor == [kind |-> "inf"]
Factor(num, den) == [kind |-> "ratio", num |-> num, den |-> den]

TradeStats(total, wins, losses, rate, factor) ==
    [total_trades |-> total, winning_trades |-> wins, losing_trades |-> losses,
     win_rate |-> rate, profit_factor |-> factor]

_calculate_trade_statistics(trs) ==
    LET trade_pairs == TradePairs(trs, 1)
        winning_trades == SelectSeq(trade_pairs, LAMBDA pnl : pnl > 0)
        losing_trades == SelectSeq(trade_pairs, LAMBDA pnl : pnl < 0)
        total_losses == -SumSeq(losing_trades, 1)
    IN  IF trs = <<>>
        THEN TradeStats(0, 0, 0, [num |-> 0, den |-> 1], ZeroFactor)
        ELSE IF trade_pairs = <<>>
        THEN TradeStats(Len(trs), 0, 0, [num |-> 0, den |-> 1], ZeroFactor)
        ELSE TradeStats(Len(trade_pairs), Len(winning_trades), Len(losing_trades),
                        [num |-> Len(winning_trades), den |-> Len(trade_pairs)],
                        IF total_losses > 0
                        THEN Factor(SumSeq(winning_trades, 1), total_losses)
                        ELSE InfFactor)

_calculate_results ==
    [status |-> "result",
     initial_capital |-> InitialCapital,
     final_capital |-> daily_equity[Len(daily_equity)].equity,
     total_return |-> [num |-> daily_equity[Len(daily_equity)].equity - InitialCapital,
                       den |-> InitialCapital],
     max_drawdown |-> _calculate_max_drawdown(
                          [k \in 1..Len(daily_equity) |-> daily_equity[k].equity]),
     trade_stats |-> _calculate_trade_statistics(trades),
     trades |-> trades,
     daily_returns |-> Tail(daily_returns),
     equity_curve |-> daily_equity]

\* variant of OnException that logs and returns normally
OnExceptionSwallowed == "Done"

\* the except clause of run_backtest logs and re-raises
OnException == "Raised"

\* df is None or df.empty
NoData(kind) == kind \in {"none", "empty"}

(***************************************************************************)
(* Timestamps.  A trade is stamped with the bar's index value when that is *)
(* a pandas Timestamp or a datetime, and with datetime.now() otherwise     *)
(* (get_market_data leaves the vendor's string index in place).            *)
(***************************************************************************)
DataKinds == {"Timestamp", "str"}

TradeTimestamps(kind, date) ==
    IF kind = "Timestamp"
    THEN {[src |-> "index", t |-> date]}
    ELSE {[src |-> "now", t |-> c] : c \in now..MaxClock}

\* the clock after a step that appended, or not, a trade stamped ts
ClockAfter(ts, trs_after) ==
    IF ts.src = "now" /\ trs_after # trades THEN ts.t ELSE now

\* the value df.index[k] of the bar with 0-based index k
DateOf(k) == k + 1

(***************************************************************************)
(* StockTrader data (src/trader.py).  Prices and cash are whole yuan.      *)
(***************************************************************************)
None == [kind |-> "None"]
Unset == [kind |-> "unset"]
Pending == [kind |-> "pending"]
OrderId == [kind |-> "order_id"]
Done == [kind |-> "value"]

\* what get_account_asset and get_position return for a broker answer
AssetOf(cash) == [kind |-> "asset", cash |-> cash]
PositionOf(volume, can_use_volume) ==
    [kind |-> "position", volume |-> volume, can_use_volume |-> can_use_volume]

NoApi == [name |-> "none"]
NoOrder == [side |-> "none"]

\* a stack frame of a guarded StockTrader method
Frame(fn, at, price, volume) == [fn |-> fn, pc |-> at, price |-> price, volume |-> volume]

\* StockTrader after __init__ connected the account
TraderInit ==
    [is_connected |-> TRUE,
     stack |-> <<>>,               \* frames of the guarded methods being executed
     entry_connected |-> TRUE,     \* is_connected when the operation was entered
     reconnects |-> 0,             \* reconnect() calls made during the operation
     guard |-> "none",             \* outcome of the operation's own connection guard
     queried |-> Unset,            \* value the nested query returned
     api |-> NoApi,                \* last broker call made by a method body
     order |-> NoOrder,            \* the order_stock call of the operation
     result |-> Unset]             \* value the operation returned

BrokerInit == [link |-> "up"]

\* AutoTradingSystem after __init__, and the clock the scheduler reads
LiveInit ==
    [weekday |-> 0,                \* datetime.now().weekday()
     minute |-> 540,               \* minutes since midnight of datetime.now().time()
     task |-> "none",              \* the scheduled task that ran last
     order |-> NoOrder,            \* the order that task submitted
     daily_trade_count |-> 0]

(***************************************************************************)
(* State machine of run_backtest.                                          *)
(***************************************************************************)
Init ==
    /\ config \in TradingConfigs
    /\ pc = "Idle"
    /\ run = 0
    /\ df = <<>>
    /\ df_complete = FALSE
    /\ df_kind = "unfetched"
    /\ i = 0
    /\ current_capital = InitialCapital
    /\ current_position = NoPosition
    /\ trades = <<>>
    /\ daily_equity = <<>>
    /\ daily_returns = <<>>
    /\ stop_action = "none"
    /\ signal = NoSignal
    /\ now = 0
    /\ result = NoResult
    /\ prev_result = NoResult
    /\ call = NoCall
    /\ ret = NoCall
    /\ trader = TraderInit
    /\ broker = BrokerInit
    /\ live = LiveInit

\* _reset_state
_reset_state ==
    /\ current_capital' = InitialCapital
    /\ current_position' = NoPosition
    /\ trades' = <<>>
    /\ daily_equity' = <<>>
    /\ daily_returns' = <<>>

\* run_backtest up to the loop: get_market_data returned kind
RunBacktest(kind) ==
    /\ pc = "Idle"
    /\ run' = run + 1
    /\ df_kind' = kind
    /\ IF NoData(kind)
       THEN /\ pc' = OnException
            /\ UNCHANGED engine
       ELSE /\ pc' = "AwaitingData"
            /\ _reset_state
    /\ i' = 0
    /\ UNCHANGED <<config, df, df_complete, stop_action, signal, now, result, prev_result>>
    /\ UNCHANGED <<call, ret, trading>>

\* the bars the loop can find at index i
BarsAt ==
    IF i < Len(df) THEN {df[i + 1]}
    ELSE IF df_complete \/ i >= MaxBars THEN {}
    ELSE InputBars(i)

Fetched(b) == IF i < Len(df) THEN df ELSE Append(df, b)

\* one iteration of the loop with fewer than MinBars bars of history
WarmupBar(b) ==
    /\ pc = "AwaitingData"
    /\ ~EnoughHistory(i + 1)
    /\ df' = Fetched(b)
    /\ _update_daily_equity(DateOf(i), b.close)
    /\ i' = i + 1
    /\ UNCHANGED <<config, pc, run, df_complete, df_kind, stop_action, signal, now,
                   result, prev_result>>
    /\ UNCHANGED <<call, ret, trading>>

\* the head of an iteration with enough history
ReadBar(b) ==
    /\ pc = "AwaitingData"
    /\ EnoughHistory(i + 1)
    /\ df' = Fetched(b)
    /\ pc' = "StopCheck"
    /\ stop_action' = "none"
    /\ signal' = NoSignal
    /\ UNCHANGED <<config, run, df_complete, df_kind, i, now, result, prev_result>>
    /\ UNCHANGED engine
    /\ UNCHANGED <<call, ret, trading>>

\* the stop-loss / take-profit check and the exit it triggers
StopCheck(ts) ==
    /\ pc = "StopCheck"
    /\ LET price == df[i + 1].close
           action == _check_stop_conditions(current_position, price)
           book == _execute_trade(current_capital, current_position, trades, ts, price, action)
       IN  /\ stop_action' = action
           /\ current_capital' = book.capital
           /\ current_position' = book.position
           /\ trades' = book.trades
           /\ now' = ClockAfter(ts, book.trades)
    /\ pc' = "SignalCheck"
    /\ UNCHANGED <<config, run, df, df_complete, df_kind, i, daily_equity, daily_returns,
                   signal, result, prev_result>>
    /\ UNCHANGED <<call, ret, trading>>

\* signal generation and the trade it decides
SignalCheck(ts) ==
    /\ pc = "SignalCheck"
    /\ LET price == df[i + 1].close
           sig == _generate_signal(df[i + 1])
           book == _execute_trading_logic(config, current_capital, current_position,
                                          trades, ts, price, sig)
       IN  /\ signal' = sig
           /\ current_capital' = book.capital
           /\ current_position' = book.position
           /\ trades' = book.trades
           /\ now' = ClockAfter(ts, book.trades)
    /\ pc' = "EquityUpdate"
    /\ UNCHANGED <<config, run, df, df_complete, df_kind, i, daily_equity, daily_returns,
                   stop_action, result, prev_result>>
    /\ UNCHANGED <<call, ret, trading>>

\* the equity update that ends an iteration
EquityUpdate ==
    /\ pc = "EquityUpdate"
    /\ _update_daily_equity(DateOf(i), df[i + 1].close)
    /\ i' = i + 1
    /\ pc' = "AwaitingData"
    /\ UNCHANGED <<config, run, df, df_complete, df_kind, stop_action, signal, now,
                   result, prev_result>>
    /\ UNCHANGED <<call, ret, trading>>

\* the loop is over: _calculate_results and return
FinishRun ==
    /\ pc = "AwaitingData"
    /\ i >= 1
    /\ i = Len(df)
    /\ df_complete' = TRUE
    /\ IF daily_equity = <<>>
       THEN pc' = OnException /\ UNCHANGED result
       ELSE pc' = "Done" /\ result' = _calculate_results
    /\ UNCHANGED <<config, run, df, df_kind, i, stop_action, signal, now, prev_result>>
    /\ UNCHANGED engine
    /\ UNCHANGED <<call, ret, trading>>

\* a further run on the same engine instance over the same data
Rerun ==
    /\ pc = "Done"
    /\ run < MaxRuns
    /\ run' = run + 1
    /\ prev_result' = result
    /\ _reset_state
    /\ i' = 0
    /\ pc' = "AwaitingData"
    /\ UNCHANGED <<config, df, df_complete, df_kind, stop_action, signal, now, result>>
    /\ UNCHANGED <<call, ret, trading>>

Next ==
    \/ \E kind \in DataKinds \cup {"none", "empty"} : RunBacktest(kind)
    \/ \E b \in BarsAt : WarmupBar(b)
    \/ \E b \in BarsAt : ReadBar(b)
    \/ \E ts \in TradeTimestamps(df_kind, DateOf(i)) : StopCheck(ts)
    \/ \E ts \in TradeTimestamps(df_kind, DateOf(i)) : SignalCheck(ts)
    \/ EquityUpdate
    \/ FinishRun

Spec == Init /\ [][Next]_vars

\* the bars of the series used when the engine is run more than once
RerunBars ==
    InputBars(0) \cup
    {Bar(c, a) : c \in {100, 110},
                 a \in { Analysis(Sub("buy", 8), Sub("buy", 7), Sub("buy", 6), Sub("buy", 6), Sub("buy", 4)),
                         Analysis(Sub("sell", 5), Hold0, Sub("sell", 6), Hold0, Hold0) }}

NextRerun ==
    \/ \E kind \in DataKinds : RunBacktest(kind)
    \/ \E b \in BarsAt \cap RerunBars : WarmupBar(b)
    \/ \E b \in BarsAt \cap RerunBars : ReadBar(b)
    \/ \E ts \in TradeTimestamps(df_kind, DateOf(i)) : StopCheck(ts)
    \/ \E ts \in TradeTimestamps(df_kind, DateOf(i)) : SignalCheck(ts)
    \/ EquityUpdate
    \/ FinishRun
    \/ Rerun

SpecRerun == Init /\ [][NextRerun]_vars

\* the bars of a series on which every decision of the analyzer occurs at
\* prices that leave the position open or trigger an exit
SignalBars ==
    InputBars(0) \cup {Bar(c, a) : c \in {100, 110}, a \in Analyses}

NextSignals ==
    \/ \E kind \in DataKinds : RunBacktest(kind)
    \/ \E b \in BarsAt \cap SignalBars : WarmupBar(b)
    \/ \E b \in BarsAt \cap SignalBars : ReadBar(b)
    \/ \E ts \in TradeTimestamps(df_kind, DateOf(i)) : StopCheck(ts)
    \/ \E ts \in TradeTimestamps(df_kind, DateOf(i)) : SignalCheck(ts)
    \/ EquityUpdate
    \/ FinishRun

SpecSignals == Init /\ [][NextSignals]_vars

(***************************************************************************)
(* PositionManager (src/risk_control.py).  Amounts are in whole yuan here, *)
(* prices in whole yuan, strengths in units of 1/200.  A call returns a    *)
(* record with status "ok" or, where the code returns {'error': ...},      *)
(* status "error".                                                         *)
(***************************************************************************)
TradeAmount == 10000          \* TRADING_CONFIG['trade_amount'], in yuan

NoAsset == [known |-> FALSE]
Asset(cash, total) == [known |-> TRUE, available_cash |-> cash, total_asset |-> total]

SizerError == [status |-> "error"]

Sized(method, volume, price) ==
    [status |-> "ok", method |-> method, volume |-> volume, price |-> price,
     actual_amount |-> volume * price]

\* int(target_amount / price / 100) * 100 with target_amount = num / den
Lots(num, den, price) == (num \div (den * price * LotSize)) * LotSize

_calculate_fixed_amount_position(price, available_cash) ==
    IF available_cash < TradeAmount
    THEN Sized("fixed_amount", Lots(available_cash * 95, 100, price), price)
    ELSE Sized("fixed_amount", Lots(TradeAmount, 1, price), price)

_calculate_percentage_position(cfg, signal_strength, price, total_asset) ==
    Sized("percentage",
          Lots(total_asset * PositionRatio(cfg, signal_strength), 10 * StrengthScale, price),
          price)

\* win_rate = 0.55 + signal_strength * 0.15, in 1/4000
WinRate(signal_strength) == 2200 + 3 * signal_strength

\* (odds * win_rate - (1 - win_rate)) / odds with odds = 0.03 / 0.02, clamped
\* to [0, max_single_position]; in 1/12000
KellyRatio(cfg, signal_strength) ==
    LET raw == 3 * WinRate(signal_strength) - 2 * (4000 - WinRate(signal_strength))
        capped == Min(raw, cfg.max_single_position * 1200)
    IN  IF capped < 0 THEN 0 ELSE capped

_calculate_kelly_position(cfg, signal_strength, price, available_cash) ==
    Sized("kelly",
          Lots(available_cash * KellyRatio(cfg, signal_strength), 12000, price),
          price)

\* risk_amount = available_cash * 0.01, risk_per_share = price * 0.02
_calculate_atr_position(price, available_cash) ==
    Sized("atr_based", Lots(available_cash, 2, price), price)

PositionSizeTypes == {"fixed_amount", "percentage", "kelly", "atr_based"}

calculate_position_size(cfg, asset, signal_strength, current_price, method) ==
    IF asset = NoAsset THEN SizerError
    ELSE IF method \notin PositionSizeTypes THEN SizerError
    ELSE IF current_price = 0 THEN SizerError       \* ZeroDivisionError, caught
    ELSE IF method = "fixed_amount"
    THEN _calculate_fixed_amount_position(current_price, asset.available_cash)
    ELSE IF method = "percentage"
    THEN _calculate_percentage_position(cfg, signal_strength, current_price, asset.total_asset)
    ELSE IF method = "kelly"
    THEN _calculate_kelly_position(cfg, signal_strength, current_price, asset.available_cash)
    ELSE _calculate_atr_position(current_price, asset.available_cash)

\* inputs of the sizer: what get_account_asset returns, prices, strengths
AccountAssets ==
    {NoAsset} \cup
    {Asset(c, t) : c \in {0, 5000, 10000, 40000, 100000}, t \in {40000, 100000}}

SizerPrices == {0, 1, 33, 100}
SizerStrengths == {0, 60, 100, 132, 200}

CalculatePositionSize(asset, method, signal_strength, current_price) ==
    /\ call = NoCall
    /\ call' = [op |-> "calculate_position_size", asset |-> asset, method |-> method,
                signal_strength |-> signal_strength, current_price |-> current_price]
    /\ ret' = calculate_position_size(config, asset, signal_strength, current_price, method)
    /\ UNCHANGED <<backtest, trading>>

\* StopLossManager.calculate_stop_loss_price for the other trade type
calculate_stop_loss_price_short(entry_price, trade_type, stop_loss_ratio) ==
    entry_price * (100 + stop_loss_ratio)

\* StopLossManager: prices are in fen, ratios in percent, and the prices
\* returned are in 1/100 fen
calculate_stop_loss_price(entry_price, trade_type, stop_loss_ratio) ==
    IF trade_type = "buy"
    THEN entry_price * (100 - stop_loss_ratio)
    ELSE entry_price * (100 + stop_loss_ratio)

calculate_take_profit_price(entry_price, trade_type, take_profit_ratio) ==
    IF trade_type = "buy"
    THEN entry_price * (100 + take_profit_ratio)
    ELSE entry_price * (100 - take_profit_ratio)

\* what get_position returns: None or the holding of the stock
NoHolding == [held |-> FALSE]
Holding(vol, avg) == [held |-> TRUE, volume |-> vol, avg_price |-> avg]

check_stop_conditions(position, current_price, stop_loss_ratio, take_profit_ratio) ==
    IF position = NoHolding THEN [action |-> "none"]
    ELSE IF position.avg_price = 0 \/ position.volume = 0 THEN [action |-> "none"]
    ELSE
    LET stop_loss_price ==
            calculate_stop_loss_price(position.avg_price, "buy", stop_loss_ratio)
        take_profit_price ==
            calculate_take_profit_price(position.avg_price, "buy", take_profit_ratio)
    IN  IF current_price * 100 <= stop_loss_price
        THEN [action |-> "stop_loss", stop_price |-> stop_loss_price,
              entry_price |-> position.avg_price, volume |-> position.volume]
        ELSE IF current_price * 100 >= take_profit_price
        THEN [action |-> "take_profit", take_profit_price |-> take_profit_price,
              entry_price |-> position.avg_price, volume |-> position.volume]
        ELSE [action |-> "hold", stop_loss_price |-> stop_loss_price,
              take_profit_price |-> take_profit_price,
              entry_price |-> position.avg_price]

\* inputs of the stop check: holdings, current prices (fen), ratios (percent)
Holdings ==
    {NoHolding} \cup {Holding(v, p) : v \in {0, 100}, p \in {0, 1, 1200, 10000}}

StopPrices == {0, 1, 2, 1130, 1140, 1141, 1200, 1295, 1296, 9500, 10000, 10800, 19900}
StopRatios == {1, 5, 8, 50, 99}

CheckStopConditions(position, current_price, stop_loss_ratio, take_profit_ratio) ==
    /\ call = NoCall
    /\ call' = [op |-> "check_stop_conditions", position |-> position,
                current_price |-> current_price, stop_loss_ratio |-> stop_loss_ratio,
                take_profit_ratio |-> take_profit_ratio]
    /\ ret' = check_stop_conditions(position, current_price, stop_loss_ratio,
                                    take_profit_ratio)
    /\ UNCHANGED <<backtest, trading>>

(***************************************************************************)
(* RiskController.  A check result is the pair of risk_level and action of *)
(* one of the return statements of the check.                              *)
(***************************************************************************)
Check(level, action) == [risk_level |-> level, action |-> action]

\* the return statements of the four checks
DailyLossResults ==
    {Check("low", "allow"), Check("critical", "stop"), Check("high", "reduce"),
     Check("medium", "allow")}
DrawdownResults ==
    {Check("low", "allow"), Check("critical", "emergency_exit"), Check("high", "reduce"),
     Check("critical", "stop")}
PositionResults ==
    {Check("critical", "stop"), Check("low", "allow"), Check("high", "reduce"),
     Check("medium", "allow")}
FrequencyResults ==
    {Check("high", "stop"), Check("medium", "allow"), Check("low", "allow"),
     Check("critical", "stop")}

\* variant of level_priority that ranks high above critical
level_priority_high_first(level) ==
    IF level = "critical" THEN 3
    ELSE IF level = "high" THEN 4
    ELSE IF level = "medium" THEN 2
    ELSE IF level = "low" THEN 1
    ELSE 0

level_priority(level) ==
    IF level = "critical" THEN 4
    ELSE IF level = "high" THEN 3
    ELSE IF level = "medium" THEN 2
    ELSE IF level = "low" THEN 1
    ELSE 0

\* variant of action_priority that ranks reduce above stop
action_priority_reduce_first(action) ==
    IF action = "emergency_exit" THEN 4
    ELSE IF action = "stop" THEN 2
    ELSE IF action = "reduce" THEN 3
    ELSE IF action = "allow" THEN 1
    ELSE 0

action_priority(action) ==
    IF action = "emergency_exit" THEN 4
    ELSE IF action = "stop" THEN 3
    ELSE IF action = "reduce" THEN 2
    ELSE IF action = "allow" THEN 1
    ELSE 0

\* max(xs, key=...) of Python, for the key given as the sequence keys: the
\* first element whose key is the largest
MaxByKey(xs, keys) ==
    xs[CHOOSE k \in 1..Len(xs) :
          /\ \A j \in 1..Len(xs) : keys[j] <= keys[k]
          /\ \A j \in 1..(k - 1) : keys[j] < keys[k]]

comprehensive_risk_check(checks) ==
    LET risk_levels == [k \in 1..4 |-> checks[k].risk_level]
        actions == [k \in 1..4 |-> checks[k].action]
        highest_risk == MaxByKey(risk_levels, [k \in 1..4 |-> level_priority(risk_levels[k])])
        required_action == MaxByKey(actions, [k \in 1..4 |-> action_priority(actions[k])])
    IN  [overall_risk_level |-> highest_risk,
         required_action |-> required_action,
         detailed_checks |-> checks,
         can_trade |-> required_action \in {"allow", "reduce"}]

\* checks holds the results of daily_loss, drawdown, position, frequency
ComprehensiveRiskCheck(checks) ==
    /\ call = NoCall
    /\ call' = [op |-> "comprehensive_risk_check"]
    /\ ret' = comprehensive_risk_check(checks)
    /\ UNCHANGED <<backtest, trading>>

\* the value the except clause of each of the four checks returns
CheckFailed == Check("critical", "stop")

\* the value the except clause of comprehensive_risk_check returns
AggregationFailed ==
    [overall_risk_level |-> "critical", required_action |-> "stop", can_trade |-> FALSE]

\* a call of comprehensive_risk_check in which the aggregation raises
ComprehensiveRiskCheckRaises ==
    /\ call = NoCall
    /\ call' = [op |-> "comprehensive_risk_check.except"]
    /\ ret' = AggregationFailed
    /\ UNCHANGED <<backtest, trading>>

\* the caller takes the returned value
Return ==
    /\ call # NoCall
    /\ call' = NoCall
    /\ ret' = NoCall
    /\ UNCHANGED <<backtest, trading>>

NextRisk ==
    \/ call = NoCall /\ \E asset \in AccountAssets, method \in PositionSizeTypes \cup {"other"},
          s \in SizerStrengths, p \in SizerPrices :
            CalculatePositionSize(asset, method, s, p)
    \/ call = NoCall /\ \E position \in Holdings, p \in StopPrices, sl \in StopRatios, tp \in StopRatios :
            CheckStopConditions(position, p, sl, tp)
    \/ call = NoCall /\ \E dl \in DailyLossResults, dd \in DrawdownResults, ps \in PositionResults,
          fr \in FrequencyResults :
            ComprehensiveRiskCheck(<<dl, dd, ps, fr>>)
    \/ ComprehensiveRiskCheckRaises
    \/ Return

SpecRisk == Init /\ [][NextRisk]_vars

(***************************************************************************)
(* Analyzer entry points (src/strategy.py).  A history is what an analyzer *)
(* is handed: the number of bars and the quantities the analyzer derives   *)
(* from them.  Strengths of the technical, momentum and band analyzers are *)
(* in units of 1/200, the combined strength in units of 1/2000.            *)
(***************************************************************************)
Signal(type, strength) == [signal_type |-> type, signal_strength |-> strength]

\* the arguments of a call strategy.analyze_xxx(df): the wrapper of
\* validate_data receives the bound instance first
MethodArgs == <<"self", "DataFrame">>

\* the decorator validate_data: the length checks apply when the first
\* positional argument is a DataFrame; inner is what the wrapped function
\* returns on a history of n bars
validate_data(args, n, inner) ==
    IF Len(args) > 0 /\ args[1] = "DataFrame"
    THEN IF n = 0 THEN Signal("hold", 0)
         ELSE IF n < MinBars THEN Signal("hold", 0)
         ELSE inner
    ELSE inner

\* periods of the indicators the sub-analyses read (STRATEGY_CONFIG and the
\* defaults of src/indicators.py)
MaLongPeriod == 20
BbPeriod == 20
RsiPeriod == 14
VolumeMaPeriod == 10
MacdBars == 2                 \* a MACD cross needs a previous bar
MomentumPeriod == 10

\* the outcomes of a sub-analysis on n bars: with fewer bars than its
\* indicator needs the indicator is NaN and the sub-analysis holds
Available(n, period, outcomes) == IF n >= period THEN outcomes ELSE {Hold0}

TechnicalAnalyses(n) ==
    {Analysis(ma, rsi, macd, bb, vol) :
        ma \in Available(n, MaLongPeriod, MaOutcomes),
        rsi \in Available(n, RsiPeriod, RsiOutcomes),
        macd \in Available(n, MacdBars, MacdOutcomes),
        bb \in Available(n, BbPeriod, BbOutcomes),
        vol \in Available(n, VolumeMaPeriod, VolOutcomes)}

\* TechnicalStrategy.analyze_trend on n bars whose sub-analyses give a; on an
\* empty frame df.iloc[-1] raises and the except clause answers hold
TechnicalStrategy_analyze_trend(n, a) ==
    validate_data(MethodArgs, n,
                  IF n = 0 THEN Signal("hold", 0) ELSE analyze_trend(a))

\* MomentumStrategy.analyze_momentum on n bars with latest close c, previous
\* close p and close c10 ten bars before the latest (whole yuan, all > 0):
\* momentum = c - c10, price_change = (c - p) / p, compared with 5, 2 and 2, 1
analyze_momentum(n, c, p, c10) ==
    IF n = 0 THEN Signal("hold", 0)                   \* exception: hold
    ELSE IF n <= MomentumPeriod THEN Signal("hold", 0)   \* momentum is NaN
    ELSE
    LET momentum_value == c - c10
    IN  IF momentum_value > 5 /\ c - p > 2 * p THEN Signal("strong_buy", 160)
        ELSE IF momentum_value > 2 /\ c - p > p THEN Signal("buy", 120)
        ELSE IF momentum_value < -5 /\ c - p < -2 * p THEN Signal("strong_sell", 160)
        ELSE IF momentum_value < -2 /\ c - p < -p THEN Signal("sell", 120)
        ELSE Signal("hold", 0)

MomentumStrategy_analyze_momentum(n, c, p, c10) ==
    validate_data(MethodArgs, n, analyze_momentum(n, c, p, c10))

\* ETFDayTradingStrategy._analyze_macd_consecutive on the signs (-1, 0, 1) of
\* the last five MACD histogram values, oldest first
RECURSIVE Trailing(_, _, _)
Trailing(h, k, sign) ==
    IF k = 0 THEN 0
    ELSE IF h[k] = sign THEN 1 + Trailing(h, k - 1, sign)
    ELSE 0

\* variant of _analyze_macd_consecutive that accepts a run of one value
_analyze_macd_consecutive_run_of_one(n, h) ==
    IF n < 5 THEN [sig |-> "hold", volume |-> 0]
    ELSE
    LET consecutive_negative == Trailing(h, Len(h), -1)
        consecutive_positive == Trailing(h, Len(h), 1)
    IN  IF consecutive_negative >= 1
        THEN [sig |-> "buy", volume |-> consecutive_negative * 100]
        ELSE IF consecutive_positive >= 1
        THEN [sig |-> "sell", volume |-> consecutive_positive * 100]
        ELSE [sig |-> "hold", volume |-> 0]

_analyze_macd_consecutive(n, h) ==
    IF n < 5 THEN [sig |-> "hold", volume |-> 0]
    ELSE
    LET consecutive_negative == Trailing(h, Len(h), -1)
        consecutive_positive == Trailing(h, Len(h), 1)
    IN  IF consecutive_negative >= 2
        THEN [sig |-> "buy", volume |-> consecutive_negative * 100]
        ELSE IF consecutive_positive >= 2
        THEN [sig |-> "sell", volume |-> consecutive_positive * 100]
        ELSE [sig |-> "hold", volume |-> 0]

EtfSignal(type, strength, volume) ==
    [signal_type |-> type, signal_strength |-> strength, trade_volume |-> volume]

\* analyze_etf_day_trading on n bars: current_price is the real-time price
\* (or the last close), bb_middle the 20-bar mean of the closes, NaN with
\* fewer than BbPeriod bars, when neither comparison of price_diff is true
analyze_etf_day_trading(n, h, current_price, bb_middle) ==
    IF n = 0 THEN EtfSignal("hold", 0, 0)             \* exception: hold
    ELSE IF n < BbPeriod THEN EtfSignal("hold", 0, 0)
    ELSE
    LET macd_signal == _analyze_macd_consecutive(n, h)
        price_diff == current_price - bb_middle
    IN  IF price_diff > 0
        THEN IF macd_signal.sig = "sell"
             THEN EtfSignal("sell", 160, macd_signal.volume)
             ELSE EtfSignal("sell", 100, 100)
        ELSE IF price_diff < 0
        THEN IF macd_signal.sig = "buy"
             THEN EtfSignal("buy", 160, macd_signal.volume)
             ELSE EtfSignal("buy", 100, 100)
        ELSE EtfSignal("hold", 0, 0)

ETFDayTradingStrategy_analyze_etf_day_trading(n, h, current_price, bb_middle) ==
    validate_data(MethodArgs, n, analyze_etf_day_trading(n, h, current_price, bb_middle))

\* StrategyManager._combine_strategy_signals; strength in 1/2000
_combine_strategy_signals(tech_signal, momentum_signal, strength) ==
    IF tech_signal = momentum_signal /\ tech_signal # "hold"
    THEN IF strength >= 1400
         THEN IF tech_signal = "buy" THEN "strong_buy" ELSE "strong_sell"
         ELSE tech_signal
    ELSE IF strength >= 1000 THEN tech_signal
    ELSE "hold"

\* variant of CombinedStrength that adds the two strengths unweighted
CombinedStrengthUnweighted(tech_strength, momentum_strength) ==
    10 * tech_strength + 10 * momentum_strength

\* tech_signal['signal_strength'] * 0.7 + momentum_strength * 0.3, in 1/2000
CombinedStrength(tech_strength, momentum_strength) ==
    7 * tech_strength + 3 * momentum_strength

\* StrategyManager.get_combined_signal from the signals of the two analyzers
get_combined_signal(tech, mom) ==
    LET combined_strength == CombinedStrength(tech.signal_strength, mom.signal_strength)
    IN  [signal_type |-> _combine_strategy_signals(tech.signal_type, mom.signal_type,
                                                   combined_strength),
         signal_strength |-> combined_strength,
         technical_signal |-> tech,
         momentum_signal |-> mom]

\* inputs of the analyzers
HistoryLengths == {0, 1, 11, 14, 19, 20, 30}

MomentumCloses ==
    { <<100, 100, 100>>,      \* flat
      <<110, 106, 100>>,      \* momentum 10, change 3.8%
      <<103, 101, 100>>,      \* momentum 3, change 2.0%
      <<90, 94, 100>>,        \* momentum -10, change -4.3%
      <<97, 99, 100>>,        \* momentum -3, change -2.0%
      <<330, 100, 100>>,      \* momentum 230, change 230%
      <<210, 100, 100>>,      \* momentum 110, change 110%
      <<10, 1, 1>>,           \* momentum 9, change 900%
      <<4, 2, 1>> }           \* momentum 3, change 100%

HistogramSigns == {<<s1, s2, s3, s4, s5>> : s1, s2, s3, s4, s5 \in {-1, 0, 1}}

AnalyzeTrend(n, a) ==
    /\ call = NoCall
    /\ call' = [op |-> "analyze_trend", len |-> n, analysis |-> a]
    /\ ret' = TechnicalStrategy_analyze_trend(n, a)
    /\ UNCHANGED <<backtest, trading>>

AnalyzeMomentum(n, closes) ==
    /\ call = NoCall
    /\ call' = [op |-> "analyze_momentum", len |-> n, close |-> closes[1],
                prev_close |-> closes[2], close_10 |-> closes[3]]
    /\ ret' = MomentumStrategy_analyze_momentum(n, closes[1], closes[2], closes[3])
    /\ UNCHANGED <<backtest, trading>>

AnalyzeEtfDayTrading(n, h, current_price, bb_middle) ==
    /\ call = NoCall
    /\ call' = [op |-> "analyze_etf_day_trading", len |-> n, histogram |-> h,
                current_price |-> current_price, bb_middle |-> bb_middle]
    /\ ret' = ETFDayTradingStrategy_analyze_etf_day_trading(n, h, current_price, bb_middle)
    /\ UNCHANGED <<backtest, trading>>

\* get_combined_signal: both analyzers run on the 30 bars just fetched
GetCombinedSignal(a, closes) ==
    /\ call = NoCall
    /\ call' = [op |-> "get_combined_signal", analysis |-> a]
    /\ ret' = get_combined_signal(
                  TechnicalStrategy_analyze_trend(30, a),
                  MomentumStrategy_analyze_momentum(30, closes[1], closes[2], closes[3]))
    /\ UNCHANGED <<backtest, trading>>

NextStrategy ==
    \/ call = NoCall /\ \E n \in HistoryLengths : \E a \in TechnicalAnalyses(n) : AnalyzeTrend(n, a)
    \/ call = NoCall /\ \E n \in HistoryLengths, closes \in MomentumCloses : AnalyzeMomentum(n, closes)
    \/ call = NoCall /\ \E n \in HistoryLengths, h \in HistogramSigns, p \in {9, 10, 11} :
            AnalyzeEtfDayTrading(n, h, p, 10)
    \/ call = NoCall /\ \E a \in TechnicalAnalyses(30), closes \in MomentumCloses : GetCombinedSignal(a, closes)
    \/ Return

SpecStrategy == Init /\ [][NextStrategy]_vars

(***************************************************************************)
(* The five sub-analyses computed from a price series                      *)
(* (src/indicators.py, src/strategy.py).  closes is the sequence of        *)
(* close_price values up to the latest bar, in whole yuan.  Rolling means  *)
(* are kept as rolling sums and every comparison is cross-multiplied, so   *)
(* the arithmetic is exact.  NaN is a value of its own: every comparison   *)
(* with it is false, as in the code.                                       *)
(***************************************************************************)
MaShortPeriod == 5                 \* STRATEGY_CONFIG['ma_short']
RsiOversold == 30                  \* STRATEGY_CONFIG['rsi_oversold']
RsiOverbought == 70                \* STRATEGY_CONFIG['rsi_overbought']
PriceChangeThresholdPct == 2       \* STRATEGY_CONFIG['price_change_threshold'] = 0.02

RECURSIVE SumOf(_, _, _)
SumOf(xs, from, to) == IF from > to THEN 0 ELSE xs[from] + SumOf(xs, from + 1, to)

\* period * data.rolling(window=period).mean() at bar n, for n >= period
RollingSum(xs, n, period) == SumOf(xs, n - period + 1, n)

\* (sma_short - sma_long) * MaShortPeriod * MaLongPeriod at bar n
MaDiff(closes, n) ==
    MaLongPeriod * RollingSum(closes, n, MaShortPeriod)
        - MaShortPeriod * RollingSum(closes, n, MaLongPeriod)

\* variant of _analyze_ma_signals whose cross tests accept current_diff = 0
_analyze_ma_signals_cross_on_equal(closes) ==
    LET n == Len(closes)
    IN  IF n < MaLongPeriod THEN Hold0
        ELSE IF n - 1 >= MaLongPeriod /\ MaDiff(closes, n - 1) <= 0 /\ MaDiff(closes, n) >= 0
        THEN Sub("buy", 8)
        ELSE IF n - 1 >= MaLongPeriod /\ MaDiff(closes, n - 1) >= 0 /\ MaDiff(closes, n) <= 0
        THEN Sub("sell", 8)
        ELSE IF /\ MaShortPeriod * closes[n] > RollingSum(closes, n, MaShortPeriod)
                /\ MaLongPeriod * closes[n] > RollingSum(closes, n, MaLongPeriod)
                /\ MaDiff(closes, n) > 0
        THEN Sub("buy", 5)
        ELSE IF /\ MaShortPeriod * closes[n] <= RollingSum(closes, n, MaShortPeriod)
                /\ MaLongPeriod * closes[n] <= RollingSum(closes, n, MaLongPeriod)
                /\ MaDiff(closes, n) < 0
        THEN Sub("sell", 5)
        ELSE Hold0

_analyze_ma_signals(closes) ==
    LET n == Len(closes)
        \* prev['sma_long'] is NaN on the first bar that has an sma_long
        prev_known == n - 1 >= MaLongPeriod
        price_above_short ==
            MaShortPeriod * closes[n] > RollingSum(closes, n, MaShortPeriod)
        price_above_long ==
            MaLongPeriod * closes[n] > RollingSum(closes, n, MaLongPeriod)
    IN  IF n < MaLongPeriod THEN Hold0
        ELSE IF prev_known /\ MaDiff(closes, n - 1) <= 0 /\ MaDiff(closes, n) > 0
        THEN Sub("buy", 8)
        ELSE IF prev_known /\ MaDiff(closes, n - 1) >= 0 /\ MaDiff(closes, n) < 0
        THEN Sub("sell", 8)
        ELSE IF price_above_short /\ price_above_long /\ MaDiff(closes, n) > 0
        THEN Sub("buy", 5)
        ELSE IF ~price_above_short /\ ~price_above_long /\ MaDiff(closes, n) < 0
        THEN Sub("sell", 5)
        ELSE Hold0

NaN == [nan |-> TRUE]
Ratio(num, den) == [nan |-> FALSE, num |-> num, den |-> den]

\* delta.where(delta > 0, 0) and -delta.where(delta < 0, 0) at bar k; the
\* delta of the first bar is NaN and is replaced by 0
Gain(closes, k) ==
    IF k >= 2 /\ closes[k] > closes[k - 1] THEN closes[k] - closes[k - 1] ELSE 0

Loss(closes, k) ==
    IF k >= 2 /\ closes[k] < closes[k - 1] THEN closes[k - 1] - closes[k] ELSE 0

RECURSIVE SumGain(_, _, _)
SumGain(closes, from, to) ==
    IF from > to THEN 0 ELSE Gain(closes, from) + SumGain(closes, from + 1, to)

RECURSIVE SumLoss(_, _, _)
SumLoss(closes, from, to) ==
    IF from > to THEN 0 ELSE Loss(closes, from) + SumLoss(closes, from + 1, to)

\* rsi(data, period) at bar n: 100 - 100 / (1 + gain / loss); 0 / 0 is NaN
\* and gain / 0 is inf, which gives 100
rsi(closes, n) ==
    IF n < RsiPeriod THEN NaN
    ELSE LET gain == SumGain(closes, n - RsiPeriod + 1, n)
             loss == SumLoss(closes, n - RsiPeriod + 1, n)
         IN  IF gain = 0 /\ loss = 0 THEN NaN
             ELSE Ratio(100 * gain, gain + loss)

RatioAtMost(r, t) == ~r.nan /\ r.num <= t * r.den
RatioAtLeast(r, t) == ~r.nan /\ r.num >= t * r.den

_analyze_rsi_signals(closes) ==
    LET n == Len(closes)
        latest == rsi(closes, n)
        prev == IF n > 1 THEN rsi(closes, n - 1) ELSE latest
    IN  IF latest.nan THEN Hold0
        ELSE IF RatioAtMost(latest, RsiOversold) THEN Sub("buy", 7)
        ELSE IF RatioAtLeast(latest, RsiOverbought) THEN Sub("sell", 7)
        ELSE IF RatioAtMost(prev, RsiOversold) THEN Sub("buy", 5)
        ELSE IF RatioAtLeast(prev, RsiOverbought) THEN Sub("sell", 5)
        ELSE Hold0

IsFlat(xs) == \A k \in 1..Len(xs) : xs[k] = xs[1]

\* data.ewm(span=period).mean() at the latest bar is a mean of the values so
\* far with positive weights; this is its value on a series of equal values
ema_of_flat(data) == data[Len(data)]

\* macd(data) at bar n of a series of equal values: both emas are the price,
\* macd_line is 0 on every bar, and so are its ema and the histogram
macd_of_flat(closes, n) ==
    LET ema_fast == ema_of_flat(SubSeq(closes, 1, n))
        ema_slow == ema_of_flat(SubSeq(closes, 1, n))
        macd_line == [k \in 1..n |-> ema_fast - ema_slow]
        signal_line == ema_of_flat(macd_line)
    IN  [macd |-> macd_line[n], macd_signal |-> signal_line,
         macd_histogram |-> macd_line[n] - signal_line]

_analyze_macd_signals(latest, prev) ==
    LET current_diff == latest.macd - latest.macd_signal
        prev_diff == prev.macd - prev.macd_signal
    IN  IF prev_diff <= 0 /\ current_diff > 0 THEN Sub("buy", 6)
        ELSE IF prev_diff >= 0 /\ current_diff < 0 THEN Sub("sell", 6)
        ELSE IF /\ latest.macd_histogram > prev.macd_histogram
                /\ latest.macd_histogram > 0
        THEN Sub("buy", 3)
        ELSE IF /\ latest.macd_histogram < prev.macd_histogram
                /\ latest.macd_histogram < 0
        THEN Sub("sell", 3)
        ELSE Hold0

RECURSIVE SumSquares(_, _, _)
SumSquares(xs, from, to) ==
    IF from > to THEN 0 ELSE xs[from] * xs[from] + SumSquares(xs, from + 1, to)

\* bollinger_bands(data) at bar n >= BbPeriod, as the three numbers the
\* comparisons need: below = BbPeriod * (bb_middle - price), and whether
\* |bb_middle - price| >= 2 * std, with std the sample deviation of the last
\* BbPeriod closes: std^2 = (BbPeriod * sum of squares - sum^2)
\*                         / (BbPeriod * (BbPeriod - 1))
bollinger_bands(closes, n) ==
    LET s == RollingSum(closes, n, BbPeriod)
        q == SumSquares(closes, n - BbPeriod + 1, n)
        below == s - BbPeriod * closes[n]
    IN  [below |-> below,
         outside |-> (BbPeriod - 1) * below * below
                         >= 4 * BbPeriod * (BbPeriod * q - s * s)]

_analyze_bollinger_signals(closes) ==
    LET n == Len(closes)
        bb == bollinger_bands(closes, n)
    IN  IF n < BbPeriod THEN Hold0
        ELSE IF bb.below >= 0 /\ bb.outside THEN Sub("buy", 6)      \* price <= bb_lower
        ELSE IF bb.below <= 0 /\ bb.outside THEN Sub("sell", 6)     \* price >= bb_upper
        ELSE IF bb.below < 0 THEN Sub("buy", 2)       \* bb_middle < price < bb_upper
        ELSE IF bb.below > 0 THEN Sub("sell", 2)      \* bb_lower < price < bb_middle
        ELSE Hold0

\* how the latest volume stands to its moving average: above 1.5 times it,
\* below 0.5 times it, or between the two
VolumeRatios == {"above", "below", "between"}

Abs(x) == IF x < 0 THEN -x ELSE x

\* price_change is closes[n] / closes[n - 1] - 1; the comparisons with the
\* threshold are multiplied by 100 * closes[n - 1]
_analyze_volume_signals(closes, volume_ratio) ==
    LET n == Len(closes)
        change == closes[n] - closes[n - 1]
        base == closes[n - 1]
    IN  IF n < VolumeMaPeriod THEN Hold0
        ELSE IF volume_ratio = "above"
        THEN IF 100 * change > PriceChangeThresholdPct * base THEN Sub("buy", 4)
             ELSE IF 100 * change < -PriceChangeThresholdPct * base THEN Sub("sell", 4)
             ELSE Hold0
        ELSE IF volume_ratio = "below"
        THEN IF 200 * Abs(change) < PriceChangeThresholdPct * base THEN Sub("hold", 1)
             ELSE IF change > 0 THEN Sub("sell", 2)
             ELSE Sub("buy", 2)
        ELSE Hold0

\* the five sub-analyses of analyze_trend on a history of equal closes
analyze_flat(closes, volume_ratio) ==
    LET n == Len(closes)
        latest == macd_of_flat(closes, n)
        prev == IF n > 1 THEN macd_of_flat(closes, n - 1) ELSE latest
    IN  Analysis(_analyze_ma_signals(closes),
                 _analyze_rsi_signals(closes),
                 _analyze_macd_signals(latest, prev),
                 _analyze_bollinger_signals(closes),
                 _analyze_volume_signals(closes, volume_ratio))

(***************************************************************************)
(* run_backtest over a series whose bars all have the same price.          *)
(***************************************************************************)
FlatLength == 30
FlatPrices == {10, 100}

Closes(bars) == [k \in 1..Len(bars) |-> bars[k].close]

\* the bars the loop can find at index i of a flat series
FlatBarsAt ==
    IF i < Len(df) THEN {df[i + 1]}
    ELSE IF df_complete \/ i >= FlatLength THEN {}
    ELSE IF ~EnoughHistory(i + 1)
    THEN {Bar(c, Analysis(Hold0, Hold0, Hold0, Hold0, Hold0)) :
              c \in IF df = <<>> THEN FlatPrices ELSE {df[1].close}}
    ELSE {Bar(df[1].close, analyze_flat(Append(Closes(df), df[1].close), v)) :
              v \in VolumeRatios}

NextFlat ==
    \/ RunBacktest("Timestamp")
    \/ \E b \in FlatBarsAt : WarmupBar(b)
    \/ \E b \in FlatBarsAt : ReadBar(b)
    \/ \E ts \in TradeTimestamps(df_kind, DateOf(i)) : StopCheck(ts)
    \/ \E ts \in TradeTimestamps(df_kind, DateOf(i)) : SignalCheck(ts)
    \/ EquityUpdate
    \/ FinishRun

SpecFlat == Init /\ [][NextFlat]_vars

(***************************************************************************)
(* StockTrader (src/trader.py).  A guarded method runs in steps: the       *)
(* connection guard of ensure_trader_connected, the verification by        *)
(* check_connection, the body.  buy_stock and sell_stock call a guarded    *)
(* query from their body, which runs on top of them on the stack.  The     *)
(* broker's on_disconnected callback runs on the broker's thread, between  *)
(* any two steps.                                                          *)
(***************************************************************************)
GuardedMethods ==
    {"buy_stock", "sell_stock", "cancel_order", "get_account_asset", "get_position",
     "get_orders"}
OrderMethods == {"buy_stock", "sell_stock"}

OrderPrices == {10}
OrderVolumes == {100, 200}
Cashes == {1000, 1001, 2002}
Positions == {PositionOf(100, 100), PositionOf(200, 100)}

\* the rest of the state, left alone by the trader
besides_trader == <<backtest, call, ret, live>>

Top == trader.stack[Len(trader.stack)]
At(methods, at) == Len(trader.stack) > 0 /\ Top.fn \in methods /\ Top.pc = at

\* the method on top of the stack moves on to position at
Goto(t, at) == [t EXCEPT !.stack[Len(t.stack)].pc = at]

\* the method on top of the stack returns value: the operation ends, or the
\* method that called it continues with the value
ReturnValue(t, value) ==
    IF Len(t.stack) = 1
    THEN [t EXCEPT !.stack = <<>>, !.result = value]
    ELSE [t EXCEPT !.stack = <<[t.stack[1] EXCEPT !.pc = "checked"]>>, !.queried = value]

\* the outcome of the guard of the operation itself (not of its nested query)
GuardOutcome(t, outcome) == IF Len(t.stack) = 1 THEN [t EXCEPT !.guard = outcome] ELSE t

\* a caller starts a guarded method
CallTrader(fn, price, volume) ==
    /\ trader.stack = <<>>
    /\ trader' = [is_connected |-> trader.is_connected,
                  stack |-> <<Frame(fn, "wrapper", price, volume)>>,
                  entry_connected |-> trader.is_connected,
                  reconnects |-> 0,
                  guard |-> "pending",
                  queried |-> Unset,
                  api |-> NoApi,
                  order |-> NoOrder,
                  result |-> Pending]
    /\ UNCHANGED <<broker, besides_trader>>

\* reconnect(): connect() returns 0 when the terminal is reachable
reconnect(t, link) ==
    [t EXCEPT !.is_connected = (link = "up"), !.reconnects = @ + 1]

\* the first half of the wrapper: reconnect when is_connected is false
EnsureConnected ==
    /\ At(GuardedMethods, "wrapper")
    /\ trader' =
          IF trader.is_connected THEN Goto(trader, "verify")
          ELSE LET t == reconnect(trader, broker.link)
               IN  IF t.is_connected THEN Goto(t, "verify")
                   ELSE ReturnValue(GuardOutcome(t, "failed"), None)
    /\ UNCHANGED <<broker, besides_trader>>

\* what query_stock_asset can answer
AssetAnswers(link) == IF link = "up" THEN {"asset", "none"} ELSE {"none", "raises"}

\* check_connection(): its value and the trader after it
check_connection(t, answer) ==
    IF ~t.is_connected THEN [ok |-> FALSE, trader |-> t]
    ELSE IF answer = "raises" THEN [ok |-> FALSE, trader |-> [t EXCEPT !.is_connected = FALSE]]
    ELSE [ok |-> answer = "asset", trader |-> t]

\* the second half of the wrapper: verify, then run the body
VerifyConnection(answer) ==
    /\ At(GuardedMethods, "verify")
    /\ LET chk == check_connection(trader, answer)
       IN  trader' = IF chk.ok THEN Goto(GuardOutcome(chk.trader, "passed"), "body")
                     ELSE ReturnValue(GuardOutcome(chk.trader, "failed"), None)
    /\ UNCHANGED <<broker, besides_trader>>

\* the broker function the body of a query method calls
BrokerCall(fn) ==
    IF fn = "get_account_asset" THEN "query_stock_asset"
    ELSE IF fn = "get_position" THEN "query_stock_positions"
    ELSE IF fn = "get_orders" THEN "query_stock_orders"
    ELSE "cancel_order_stock"

\* the values the body of a query method can return
QueryValues(fn, link) ==
    IF fn = "get_account_asset"
    THEN IF link = "up" THEN {None} \cup {AssetOf(c) : c \in Cashes} ELSE {None}
    ELSE IF fn = "get_position"
    THEN IF link = "up" THEN {None} \cup Positions ELSE {None}
    ELSE {Done}

\* the body of get_account_asset, get_position, get_orders, cancel_order
QueryBody(value) ==
    /\ At(GuardedMethods \ OrderMethods, "body")
    /\ value \in QueryValues(Top.fn, broker.link)
    /\ trader' = ReturnValue([trader EXCEPT !.api = [name |-> BrokerCall(Top.fn),
                                                     connected |-> trader.is_connected]],
                             value)
    /\ UNCHANGED <<broker, besides_trader>>

\* buy_stock calls self.get_account_asset(), sell_stock self.get_position()
QueryBeforeOrder ==
    /\ At(OrderMethods, "body")
    /\ trader' = [trader EXCEPT !.stack =
                     Append(@, Frame(IF Top.fn = "buy_stock" THEN "get_account_asset"
                                     ELSE "get_position", "wrapper", 0, 0))]
    /\ UNCHANGED <<broker, besides_trader>>

\* the pre-checks: the order goes on unless the check finds too little
BuyPrecheck(asset, price, volume) ==
    ~(asset # None /\ asset.cash * 1000 < price * volume * 1001)

SellPrecheck(position, volume) ==
    ~(position # None /\ position.volume < volume)

\* the rest of the body of buy_stock and sell_stock: the pre-check on the
\* queried value and the call of order_stock
SubmitOrder(accepted) ==
    /\ At(OrderMethods, "checked")
    /\ accepted \in (IF broker.link = "up" THEN {TRUE, FALSE} ELSE {FALSE})
    /\ LET side == IF Top.fn = "buy_stock" THEN "buy" ELSE "sell"
           passes == IF side = "buy"
                     THEN BuyPrecheck(trader.queried, Top.price, Top.volume)
                     ELSE SellPrecheck(trader.queried, Top.volume)
       IN  trader' =
              IF ~passes THEN ReturnValue(trader, None)
              ELSE ReturnValue(
                      [trader EXCEPT
                          !.api = [name |-> "order_stock", connected |-> trader.is_connected],
                          !.order = [side |-> side, price |-> Top.price, volume |-> Top.volume,
                                     checked |-> trader.queried]],
                      IF accepted THEN OrderId ELSE None)
    /\ UNCHANGED <<broker, besides_trader>>

\* the terminal drops the connection and the callback clears the flag
OnDisconnected ==
    /\ broker' = [broker EXCEPT !.link = "down"]
    /\ trader' = [trader EXCEPT !.is_connected = FALSE]
    /\ UNCHANGED besides_trader

\* the terminal is reachable again
LinkRestored ==
    /\ broker.link = "down"
    /\ broker' = [broker EXCEPT !.link = "up"]
    /\ UNCHANGED <<trader, besides_trader>>

NextTrader ==
    \/ \E fn \in GuardedMethods, price \in OrderPrices, volume \in OrderVolumes :
          CallTrader(fn, price, volume)
    \/ EnsureConnected
    \/ \E answer \in AssetAnswers(broker.link) : VerifyConnection(answer)
    \/ \E value \in {None, Done} \cup {AssetOf(c) : c \in Cashes} \cup Positions : QueryBody(value)
    \/ QueryBeforeOrder
    \/ \E accepted \in BOOLEAN : SubmitOrder(accepted)
    \/ OnDisconnected
    \/ LinkRestored

SpecTrader == Init /\ [][NextTrader]_vars

(***************************************************************************)
(* AutoTradingSystem (src/main.py).  The scheduler runs one task at a      *)
(* time; a task is one step.  The calls into trader.py are made on a       *)
(* trader whose connection guard either passes or fails as a whole.        *)
(* Strengths are in units of 1/2000, prices in whole yuan.                 *)
(***************************************************************************)
Weekdays == {0, 5}                                   \* a Monday, a Saturday
Minutes == {540, 570, 690, 691, 780, 900, 930}       \* 09:00 ... 15:30

LivePositions ==
    {None, PositionOf(50, 50), PositionOf(100, 100), PositionOf(150, 50),
     PositionOf(300, 0), PositionOf(300, 300)}
LiveAssets == {None, AssetOf(1000)}
LiveSignal(type, strength, price) ==
    [kind |-> "signal", signal_type |-> type, signal_strength |-> strength, price |-> price]
LiveSignals ==
    {None} \cup {LiveSignal(type, strength, 10) :
                    type \in {"buy", "sell", "hold"},
                    strength \in {600, 1000, 1600}}
RealtimePrices == {0, 10}
SizedVolumes == {0, 100}                             \* 'volume' of calculate_position_size
SizerOutcomes == {[error |-> TRUE]} \cup {[error |-> FALSE, volume |-> v] : v \in SizedVolumes}
StopResults ==
    {[action |-> "none", volume |-> 0], [action |-> "stop_loss", volume |-> 0],
     [action |-> "stop_loss", volume |-> 300], [action |-> "take_profit", volume |-> 300]}
\* the two fields of the result of check_trading_risk the risk task reads
RiskResults ==
    {[overall_risk_level |-> r.overall_risk_level, required_action |-> r.required_action] :
        r \in {AggregationFailed} \cup
               {comprehensive_risk_check(<<dl, dd, ps, fr>>) :
                    dl \in DailyLossResults, dd \in DrawdownResults,
                    ps \in PositionResults, fr \in FrequencyResults}}
TraderOutcomes == {"guard_failed", "rejected", "accepted"}

besides_live == <<backtest, call, ret, trader, broker>>

\* trading_session_only: a weekday, 09:30-11:30 or 13:00-15:00
InSession(weekday, minute) ==
    /\ weekday < 5
    /\ \/ 570 <= minute /\ minute <= 690
       \/ 780 <= minute /\ minute <= 900

\* what a call into the trader leaves: the order given to order_stock, if
\* any, and whether an order id came back
Placed(order, id) == [order |-> order, id |-> id]
NotPlaced == Placed(NoOrder, FALSE)
LiveOrder(side, price, volume, usable, reason) ==
    [side |-> side, price |-> price, volume |-> volume, usable |-> usable, reason |-> reason]

\* trader.buy_stock / trader.sell_stock as one step; queried is what the
\* query made by the pre-check returns
buy_stock(asset, price, volume, outcome) ==
    IF outcome = "guard_failed" \/ ~BuyPrecheck(asset, price, volume) THEN NotPlaced
    ELSE Placed(LiveOrder("buy", price, volume, 0, "signal"), outcome = "accepted")

sell_stock(position, price, volume, usable, reason, outcome) ==
    IF outcome = "guard_failed" \/ ~SellPrecheck(position, volume) THEN NotPlaced
    ELSE Placed(LiveOrder("sell", price, volume, usable, reason), outcome = "accepted")

\* position.get('can_use_volume', position.get('volume', 0))
UsableVolume(position) == position.can_use_volume

\* max(100, sell_volume // 100 * 100)
WholeLots(volume) == IF (volume \div 100) * 100 > 100 THEN (volume \div 100) * 100 ELSE 100

_execute_buy_decision(position, sized, asset, current_price, outcome) ==
    IF position # None /\ position.volume > 0 THEN NotPlaced
    ELSE IF sized.error THEN NotPlaced
    ELSE IF sized.volume = 0 THEN NotPlaced
    ELSE buy_stock(asset, current_price, sized.volume, outcome)

_execute_sell_decision(position, signal_strength, current_price, outcome) ==
    IF position = None THEN NotPlaced
    ELSE IF position.volume = 0 THEN NotPlaced
    ELSE LET volume == UsableVolume(position)
             sell_volume == IF signal_strength >= 1600 THEN volume
                            ELSE IF signal_strength >= 1000 THEN volume \div 2
                            ELSE volume \div 3
         IN  IF volume = 0 THEN NotPlaced
             ELSE sell_stock(position, current_price, WholeLots(sell_volume), volume,
                             "signal", outcome)

_execute_trading_decision(sig, position, sized, asset, outcome) ==
    IF sig.signal_type \in {"buy", "strong_buy"}
    THEN _execute_buy_decision(position, sized, asset, sig.price, outcome)
    ELSE IF sig.signal_type \in {"sell", "strong_sell"}
    THEN _execute_sell_decision(position, sig.signal_strength, sig.price, outcome)
    ELSE NotPlaced

_emergency_exit(position, current_price, outcome) ==
    IF position # None /\ position.volume > 0
    THEN LET volume == UsableVolume(position)
         IN  IF current_price > 0 /\ volume > 0
             THEN sell_stock(position, current_price, volume, volume, "emergency_exit", outcome)
             ELSE NotPlaced
    ELSE NotPlaced

_reduce_position(position, current_price, outcome) ==
    IF position # None /\ position.volume > 0
    THEN LET volume == UsableVolume(position)
             reduce_volume == WholeLots(volume \div 3)
         IN  IF current_price > 0 /\ reduce_volume > 0
             THEN sell_stock(position, current_price, reduce_volume, volume, "reduce", outcome)
             ELSE NotPlaced
    ELSE NotPlaced

\* the task ran and left the order placed; the two counters of the buy and
\* sell decisions move when an order id came back
TaskDone(task, placed, counted) ==
    live' = [live EXCEPT !.task = task,
                         !.order = placed.order,
                         !.daily_trade_count = IF counted /\ placed.id THEN @ + 1 ELSE @]

\* the clock moves between two tasks
Tick(weekday, minute) ==
    /\ <<weekday, minute>> # <<live.weekday, live.minute>>
    /\ live' = [live EXCEPT !.weekday = weekday, !.minute = minute,
                            !.task = "none", !.order = NoOrder]
    /\ UNCHANGED besides_live

\* every minute, inside the trading session only
ScheduledSignalCheck(can_trade, sig, position, sized, asset, outcome) ==
    /\ live.daily_trade_count < MaxTradeCount
    /\ TaskDone("_scheduled_signal_check",
                IF ~InSession(live.weekday, live.minute) THEN NotPlaced
                ELSE IF ~can_trade THEN NotPlaced
                ELSE IF sig = None THEN NotPlaced
                ELSE _execute_trading_decision(sig, position, sized, asset, outcome),
                TRUE)
    /\ UNCHANGED besides_live

\* every 5 minutes
ScheduledDataUpdate ==
    /\ TaskDone("_scheduled_data_update", NotPlaced, FALSE)
    /\ UNCHANGED besides_live

\* every 10 minutes
ScheduledRiskCheck(risk_result, position, current_price, outcome) ==
    /\ TaskDone("_scheduled_risk_check",
                IF risk_result.overall_risk_level \in {"high", "critical"}
                THEN IF risk_result.required_action = "emergency_exit"
                     THEN _emergency_exit(position, current_price, outcome)
                     ELSE IF risk_result.required_action = "reduce"
                     THEN _reduce_position(position, current_price, outcome)
                     ELSE NotPlaced
                ELSE NotPlaced,
                FALSE)
    /\ UNCHANGED besides_live

\* every 30 minutes, inside the trading session only
ScheduledStopCheck(current_price, stop_result, position, outcome) ==
    /\ TaskDone("_scheduled_stop_check",
                IF ~InSession(live.weekday, live.minute) THEN NotPlaced
                ELSE IF current_price = 0 THEN NotPlaced
                ELSE IF stop_result.action \in {"stop_loss", "take_profit"}
                        /\ stop_result.volume > 0
                THEN sell_stock(position, current_price, stop_result.volume,
                                stop_result.volume, stop_result.action, outcome)
                ELSE NotPlaced,
                FALSE)
    /\ UNCHANGED besides_live

\* at 09:00
DailyInitialization ==
    /\ live' = [live EXCEPT !.task = "_daily_initialization", !.order = NoOrder,
                            !.daily_trade_count = 0]
    /\ UNCHANGED besides_live

\* at 15:30
DailySummary ==
    /\ TaskDone("_daily_summary", NotPlaced, FALSE)
    /\ UNCHANGED besides_live

NextLive ==
    \/ \E weekday \in Weekdays, minute \in Minutes : Tick(weekday, minute)
    \/ \E can_trade \in BOOLEAN, sig \in LiveSignals, position \in LivePositions,
          sized \in SizerOutcomes, asset \in LiveAssets, outcome \in TraderOutcomes :
            ScheduledSignalCheck(can_trade, sig, position, sized, asset, outcome)
    \/ ScheduledDataUpdate
    \/ \E risk_result \in RiskResults, position \in LivePositions,
          current_price \in RealtimePrices, outcome \in TraderOutcomes :
            ScheduledRiskCheck(risk_result, position, current_price, outcome)
    \/ \E current_price \in RealtimePrices, stop_result \in StopResults,
          position \in LivePositions, outcome \in TraderOutcomes :
            ScheduledStopCheck(current_price, stop_result, position, outcome)
    \/ DailyInitialization
    \/ DailySummary

SpecLive == Init /\ [][NextLive]_vars

(***************************************************************************)
(* Properties.                                                             *)
(***************************************************************************)
Last(s) == s[Len(s)]

BuySignals == {"buy", "strong_buy"}
SellSignals == {"sell", "strong_sell"}

\* the shares held after the first n trades of the log trs
RECURSIVE HeldAfter(_, _)
HeldAfter(trs, n) ==
    IF n = 0 THEN 0
    ELSE IF trs[n].action = "buy"
         THEN HeldAfter(trs, n - 1) + trs[n].volume
         ELSE HeldAfter(trs, n - 1) - trs[n].volume

\* a step appended exactly one trade to the log
OneTradeAppended ==
    /\ Len(trades') = Len(trades) + 1
    /\ SubSeq(trades', 1, Len(trades)) = trades

\* the bar being processed, its close and the signal the analyzer gives on it
CurrentBar == df[i + 1]
Close == CurrentBar.close
CurrentSignal == _generate_signal(CurrentBar)

\* the volume the engine sizes for a buy at the current bar, and its cost
WantedVolume == BuyVolume(config, current_capital, Close, CurrentSignal.signal_strength)
WantedCost == WantedVolume * Close * 100 + (WantedVolume * Close * 100 * 3) \div 10000

\* the engine is about to act on a buy signal with no position open
BuyAttempt ==
    /\ pc = "SignalCheck"
    /\ current_position = NoPosition
    /\ CurrentSignal.signal_type \in BuySignals
    /\ Close > 0

\* C1: cash is never negative; a buy whose amount plus commission exceeds
\* the available cash changes neither cash nor position nor trade log, and
\* a buy that is executed buys the whole sized volume and pays its whole cost.
C1_CashNonNegativeBuyAllOrNothing ==
    /\ [](current_capital >= 0)
    /\ [][(BuyAttempt /\ WantedCost > current_capital)
            => UNCHANGED <<current_capital, current_position, trades>>]_vars
    /\ [][(OneTradeAppended /\ Last(trades').action = "buy")
            => /\ Last(trades').volume = WantedVolume
               /\ current_capital' = current_capital - WantedCost]_vars

\* a buy of at least one lot was rejected because its cost exceeds the cash
C1_Witness ==
    /\ pc = "EquityUpdate"
    /\ current_position = NoPosition
    /\ stop_action = "none"
    /\ signal.signal_type \in BuySignals
    /\ Close > 0
    /\ WantedVolume >= LotSize
    /\ WantedCost > current_capital

\* C2: the held volume is zero (no position) or a positive multiple of the
\* lot size; every trade moves a positive multiple of the lot size; a sell
\* never exceeds the held volume; the position's volume is what the log
\* leaves, and a position sold down to zero is removed.
C2_LotMultiples ==
    /\ \/ current_position = NoPosition
       \/ current_position.volume > 0 /\ current_position.volume % 100 = 0
    /\ \A k \in 1..Len(trades) :
          /\ trades[k].volume > 0
          /\ trades[k].volume % 100 = 0
          /\ trades[k].action = "sell" => trades[k].volume <= HeldAfter(trades, k - 1)
    /\ current_position.volume = HeldAfter(trades, Len(trades))

\* a partial sell left a position open
C2_Witness ==
    /\ Len(trades) >= 2
    /\ Last(trades).action = "sell"
    /\ current_position # NoPosition
    /\ current_position.volume < trades[1].volume

\* C3: a buy is executed only with no position open and on a Buy or
\* StrongBuy signal; the volume of an open position never increases; before
\* every Buy trade of the log the earlier trades leave nothing held.
C3_SingleOpenPosition ==
    /\ [][(OneTradeAppended /\ Last(trades').action = "buy")
            => /\ current_position = NoPosition
               /\ pc = "SignalCheck"
               /\ signal'.signal_type \in BuySignals]_vars
    /\ [][(current_position # NoPosition /\ current_position' # NoPosition)
            => current_position'.volume <= current_position.volume]_vars
    /\ [](\A k \in 1..Len(trades) :
            trades[k].action = "buy" => HeldAfter(trades, k - 1) = 0)

\* the log holds two buys
C3_Witness ==
    \E j, k \in 1..Len(trades) :
        j < k /\ trades[j].action = "buy" /\ trades[k].action = "buy"

StopLossHit == Close * 100 <= current_position.avg_price * 95
TakeProfitHit == Close * 100 >= current_position.avg_price * 108

\* C4: with enough history the stop check comes before the signal; when the
\* close is at or below the stop price or at or above the take-profit price
\* of an open position, the check appends one Sell of the whole held volume
\* at the close, with reason stop_loss or take_profit, and the position is
\* empty afterwards.
C4_StopExitLiquidatesAll ==
    /\ [][pc' = "SignalCheck" => pc = "StopCheck"]_vars
    /\ [][(pc = "AwaitingData" /\ pc' # pc /\ i + 1 >= 20) => pc' \in {"StopCheck", "Done"}]_vars
    /\ [][(pc = "StopCheck" /\ current_position # NoPosition /\ (StopLossHit \/ TakeProfitHit))
            => /\ OneTradeAppended
               /\ Last(trades').action = "sell"
               /\ Last(trades').volume = current_position.volume
               /\ Last(trades').price = Close
               /\ Last(trades').reason = IF StopLossHit THEN "stop_loss" ELSE "take_profit"
               /\ current_position' = NoPosition]_vars

\* a stop-loss exit at a positive price has just been executed
C4_Witness ==
    /\ pc = "SignalCheck"
    /\ stop_action = "stop_loss"
    /\ Close > 0
    /\ current_position = NoPosition
    /\ Last(trades).reason = "stop_loss"

\* C5: once a stop exit was triggered at a bar, no signal is generated and
\* no further trade is executed at that bar: the stop sell stays the last
\* trade and no position is open until the equity update.
C5_StopShortCircuitsSignal ==
    stop_action # "none"
        => /\ signal = NoSignal
           /\ current_position = NoPosition
           /\ Last(trades).reason = stop_action

\* C6: until the 20th bar is read the engine has only recorded equity points:
\* no stop check, no signal, no trade, cash equal to the initial capital.
C6_WarmupOnlyRecordsEquity ==
    (Len(daily_equity) < 19 \/ (Len(daily_equity) = 19 /\ pc = "AwaitingData"))
        => /\ pc \in {"Idle", "Raised", "AwaitingData", "Done"}
           /\ trades = <<>>
           /\ current_capital = InitialCapital
           /\ current_position = NoPosition
           /\ stop_action = "none"
           /\ signal = NoSignal
           /\ i = Len(daily_equity)
           /\ \A k \in 1..Len(daily_equity) : daily_equity[k].equity = InitialCapital

\* nineteen bars were processed
C6_Witness ==
    /\ pc = "AwaitingData"
    /\ Len(daily_equity) = 19
    /\ Len(df) = 19

\* C7: every equity point is appended for the next bar of the series with
\* equity = cash + held volume * that bar's close, together with one daily
\* return; a finished run has one equity point and one daily return per bar,
\* in series order, the first daily return being 0.
C7_OneEquityPointPerBar ==
    /\ [][daily_equity' # daily_equity
            => /\ Len(daily_equity') = Len(daily_equity) + 1
               /\ SubSeq(daily_equity', 1, Len(daily_equity)) = daily_equity
               /\ Last(daily_equity').date = Len(daily_equity')
               /\ Last(daily_equity').cash = current_capital
               /\ Last(daily_equity').equity =
                     current_capital
                       + current_position.volume * df'[Len(daily_equity')].close * 100
               /\ Len(daily_returns') = Len(daily_equity')]_vars
    /\ [](pc = "Done"
            => /\ Len(daily_equity) = Len(df)
               /\ Len(daily_returns) = Len(df)
               /\ daily_returns[1] = [num |-> 0, den |-> 1]
               /\ \A k \in 1..Len(df) :
                     /\ daily_equity[k].date = k
                     /\ daily_equity[k].equity
                           = daily_equity[k].cash + daily_equity[k].position_value
                     /\ k > 1 => daily_returns[k] =
                           [num |-> daily_equity[k].equity - daily_equity[k - 1].equity,
                            den |-> daily_equity[k - 1].equity])

\* a run over more than 20 bars finished with a position valued in the curve
C7_Witness ==
    /\ pc = "Done"
    /\ Len(df) > 20
    /\ \E k \in 1..Len(daily_equity) : daily_equity[k].position_value > 0

\* C8: when get_market_data returns None or an empty frame the run raises:
\* no result, no bar processed, no trade and no equity point recorded.
C8_NoDataFailsFast ==
    df_kind \in {"none", "empty"}
        => /\ pc = "Raised"
           /\ result = NoResult
           /\ i = 0
           /\ df = <<>>
           /\ trades = <<>>
           /\ daily_equity = <<>>
           /\ daily_returns = <<>>
           /\ current_capital = InitialCapital
           /\ current_position = NoPosition

\* the run raised on an empty frame
C8_Witness == pc = "Raised" /\ df_kind = "empty"

\* C9: a second run of the same engine over the same series returns the
\* same result as the first.
C9_Deterministic ==
    (pc = "Done" /\ run >= 2) => result = prev_result

\* the fraction of the held volume a signal of the given strength sells,
\* rounded down to whole lots but at least one lot
SignalSellVolume(held, strength) ==
    LET part == IF strength >= 160 THEN held
                ELSE IF strength >= 100 THEN held \div 2
                ELSE held \div 3
        lots == (part \div 100) * 100
    IN  IF lots < 100 THEN 100 ELSE lots

\* C10: on a Sell or StrongSell signal with a position open a Sell is
\* executed for the strength fraction of the held volume, rounded down to
\* lots, at least one lot and at most the held volume.
C10_SignalSellFraction ==
    [][(/\ pc = "SignalCheck"
        /\ current_position # NoPosition
        /\ CurrentSignal.signal_type \in SellSignals)
          => /\ OneTradeAppended
             /\ Last(trades').action = "sell"
             /\ Last(trades').volume
                   = SignalSellVolume(current_position.volume, CurrentSignal.signal_strength)
             /\ Last(trades').volume <= current_position.volume]_vars

\* C11: every volume the position sizer returns, for each of the four
\* methods, a price > 0, a strength in [0, 1] and any account state, is a
\* multiple of the lot size, and volume * price * (1 + commission) does not
\* exceed the available cash.
C11_SizerWithinCash ==
    (call.op = "calculate_position_size" /\ ret.status = "ok")
        => /\ ret.volume % LotSize = 0
           /\ ret.volume >= 0
           /\ ret.volume * call.current_price * (10000 + CommissionRate)
                 <= call.asset.available_cash * 10000

LevelOrder == <<"low", "medium", "high", "critical">>
ActionOrder == <<"allow", "reduce", "stop", "emergency_exit">>
Rank(order, x) == CHOOSE k \in 1..Len(order) : order[k] = x

\* C13: the overall level of the comprehensive check is the worst of the
\* four levels, the required action the most restrictive of the four
\* actions, and can_trade is true exactly when that action is Allow or Reduce.
C13_ComprehensiveWorstOfFour ==
    call.op = "comprehensive_risk_check"
        => LET checks == ret.detailed_checks
           IN  /\ \E k \in 1..4 : checks[k].risk_level = ret.overall_risk_level
               /\ \A k \in 1..4 : Rank(LevelOrder, checks[k].risk_level)
                                      <= Rank(LevelOrder, ret.overall_risk_level)
               /\ \E k \in 1..4 : checks[k].action = ret.required_action
               /\ \A k \in 1..4 : Rank(ActionOrder, checks[k].action)
                                      <= Rank(ActionOrder, ret.required_action)
               /\ ret.can_trade <=> ret.required_action \in {"allow", "reduce"}

\* a medium daily loss, a high drawdown asking to reduce and a high trade
\* frequency asking to stop give level high, action stop, no trading
C13_Witness ==
    /\ call.op = "comprehensive_risk_check"
    /\ ret.detailed_checks = <<Check("medium", "allow"), Check("high", "reduce"),
                               Check("low", "allow"), Check("high", "stop")>>
    /\ ret.overall_risk_level = "high"
    /\ ret.required_action = "stop"
    /\ ~ret.can_trade

AnalyzerCalls == {"analyze_trend", "analyze_momentum", "analyze_etf_day_trading"}

\* C14: every signal of the technical, momentum and band analyzers and of
\* the combiner has 0 <= strength <= 1; the technical strength is the sum of
\* the five sub-strengths weighted 0.30, 0.20, 0.25, 0.15, 0.10 and the
\* combined strength is 0.7 * technical + 0.3 * momentum.
C14_StrengthInUnitInterval ==
    /\ call.op \in AnalyzerCalls
          => 0 <= ret.signal_strength /\ ret.signal_strength <= 200
    /\ (call.op = "analyze_trend" /\ call.len >= 20)
          => ret.signal_strength =
                 6 * call.analysis[1].str + 4 * call.analysis[2].str
                   + 5 * call.analysis[3].str + 3 * call.analysis[4].str
                   + 2 * call.analysis[5].str
    /\ call.op = "get_combined_signal"
          => /\ 0 <= ret.signal_strength /\ ret.signal_strength <= 2000
             /\ ret.signal_strength = 7 * ret.technical_signal.signal_strength
                                        + 3 * ret.momentum_signal.signal_strength
             /\ ret.technical_signal.signal_strength <= 200
             /\ ret.momentum_signal.signal_strength <= 200

\* the combiner returned the largest strength there is: all five sub-signals
\* at their strongest (0.66) with a strong momentum signal (0.8)
C14_Witness ==
    /\ call.op = "get_combined_signal"
    /\ ret.technical_signal.signal_strength = 132
    /\ ret.momentum_signal.signal_strength = 160
    /\ ret.signal_strength = 1404

\* C15: an analyzer entry point called with fewer than 20 bars, or with an
\* empty series, returns Hold with strength 0 and never a Buy or Sell signal.
C15_ShortHistoryHolds ==
    (call.op \in AnalyzerCalls /\ call.len < 20)
        => /\ ret.signal_type = "hold"
           /\ ret.signal_strength = 0

\* the highest equity among the points 1..k of an equity curve
RECURSIVE PeakUpTo(_, _)
PeakUpTo(curve, k) ==
    IF k = 1 THEN curve[1].equity
    ELSE LET before == PeakUpTo(curve, k - 1)
         IN  IF curve[k].equity > before THEN curve[k].equity ELSE before

\* md is the largest (peak - equity) / peak over the points of the curve
DrawdownIsMaxOf(md, curve) ==
    /\ \A k \in 1..Len(curve) :
          LET peak == PeakUpTo(curve, k)
          IN  ~FracLess(md.num, md.den, peak - curve[k].equity, peak)
    /\ \E k \in 1..Len(curve) :
          LET peak == PeakUpTo(curve, k)
          IN  ~FracLess(peak - curve[k].equity, peak, md.num, md.den)

\* C17: the max_drawdown of a result is the largest, over the bars of the
\* equity curve, of (peak - equity) / peak, where peak is the highest equity
\* up to and including that bar; it lies in [0, 1]; the curve 100000, 110000,
\* 90000, 95000 gives 20000 / 110000.
C17_MaxDrawdownFromRunningPeak ==
    (pc = "Done" /\ result.status = "result")
        => /\ DrawdownIsMaxOf(result.max_drawdown, result.equity_curve)
           /\ 0 <= result.max_drawdown.num
           /\ result.max_drawdown.num <= result.max_drawdown.den
           /\ result.max_drawdown.den > 0
           /\ _calculate_max_drawdown(<<100000, 110000, 90000, 95000>>)
                  = [num |-> 20000, den |-> 110000]

C17_Witness ==
    /\ pc = "Done"
    /\ result.status = "result"
    /\ result.max_drawdown.num > 0
    /\ result.max_drawdown.den > InitialCapital
    /\ \E k \in 1..Len(result.equity_curve) :
          /\ result.equity_curve[k].equity < InitialCapital
          /\ \E j \in (k + 1)..Len(result.equity_curve) :
                result.equity_curve[j].equity > InitialCapital

\* C16: a run over 30 bars that all have the same price, whatever the
\* volumes, executes no trade and reports total_return = 0 and
\* max_drawdown = 0; on every bar with enough history the zero-width
\* Bollinger band gives its buy and the RSI is undefined, and the decision
\* is Hold.
C16_FlatSeriesNoTrades ==
    (pc = "Done" /\ result.status = "result" /\ Len(df) = FlatLength /\ IsFlat(Closes(df)))
        => /\ trades = <<>>
           /\ result.trades = <<>>
           /\ result.total_return.num = 0
           /\ result.max_drawdown.num = 0
           /\ \A k \in MinBars..Len(df) :
                 /\ df[k].analysis[2] = Hold0
                 /\ df[k].analysis[4] = Sub("buy", 6)
                 /\ _generate_signal(df[k]).signal_type = "hold"

C16_Witness ==
    /\ pc = "Done"
    /\ result.status = "result"
    /\ Len(df) = FlatLength
    /\ IsFlat(Closes(df))
    /\ Len(result.equity_curve) = FlatLength
    /\ \E k \in MinBars..Len(df) : df[k].analysis[5] = Sub("hold", 1)
    /\ \E k \in MinBars..Len(df) : df[k].analysis[5] = Hold0
    /\ _generate_signal(df[Len(df)]).signal_strength > 0

\* the direction of a signal type
Direction(signal_type) ==
    IF signal_type \in {"buy", "strong_buy"} THEN "buy"
    ELSE IF signal_type \in {"sell", "strong_sell"} THEN "sell"
    ELSE "none"

Strong(direction) == IF direction = "buy" THEN "strong_buy" ELSE "strong_sell"

\* C18: with combined strength 0.7 * technical + 0.3 * momentum, the combined
\* signal is the strong signal of the shared direction when the two analyzers
\* agree on a direction and the strength is at least 0.7, the plain signal of
\* the shared direction when they agree and the strength is below 0.7, a
\* signal of the technical direction when they do not agree and the strength
\* is at least 0.5, and hold otherwise.
C18_CombinerRule ==
    call.op = "get_combined_signal"
        => LET t == Direction(ret.technical_signal.signal_type)
               m == Direction(ret.momentum_signal.signal_type)
               agree == t = m /\ t # "none"
           IN  /\ ret.signal_strength
                      = 7 * ret.technical_signal.signal_strength
                            + 3 * ret.momentum_signal.signal_strength
               /\ IF agree /\ ret.signal_strength >= 1400
                  THEN ret.signal_type = Strong(t)
                  ELSE IF agree
                  THEN ret.signal_type = t
                  ELSE IF ret.signal_strength >= 1000
                  THEN Direction(ret.signal_type) = t
                  ELSE ret.signal_type = "hold"

Votes(a, s) == Cardinality({k \in 1..5 : a[k].sig = s})

\* C19: for every combination of the five sub-signals, with s the sum of the
\* sub-strengths weighted 0.3, 0.2, 0.25, 0.15, 0.1: the decision is
\* strong_buy / strong_sell when s >= 0.6 and that side has strictly more
\* votes, buy / sell when 0.3 <= s < 0.6 and that side has strictly more
\* votes, and hold in every other case.
C19_TechnicalDecision ==
    call.op = "analyze_trend"
        => LET a == call.analysis
               buys == Votes(a, "buy")
               sells == Votes(a, "sell")
               s == 6 * a[1].str + 4 * a[2].str + 5 * a[3].str
                        + 3 * a[4].str + 2 * a[5].str
           IN  /\ ret.signal_strength = s
               /\ ret.signal_type =
                      IF s >= 120 /\ buys > sells THEN "strong_buy"
                      ELSE IF s >= 120 /\ sells > buys THEN "strong_sell"
                      ELSE IF s >= 60 /\ s < 120 /\ buys > sells THEN "buy"
                      ELSE IF s >= 60 /\ s < 120 /\ sells > buys THEN "sell"
                      ELSE "hold"

C19_Witness ==
    /\ call.op = "analyze_trend"
    /\ ret.signal_strength >= 120
    /\ Votes(call.analysis, "buy") = 2
    /\ Votes(call.analysis, "sell") = 2
    /\ ret.signal_type = "hold"

\* C20: on a history that has a momentum value (more than 10 bars), with
\* momentum = close - close ten bars earlier and change = (close - previous
\* close) / previous close: strong_buy 0.8 when momentum > 5 and change > 2%,
\* buy 0.6 when momentum > 2 and change > 1%, strong_sell 0.8 when
\* momentum < -5 and change < -2%, sell 0.6 when momentum < -2 and
\* change < -1%, hold 0.0 otherwise.
C20_MomentumLadder ==
    (call.op = "analyze_momentum" /\ call.len > MomentumPeriod)
        => LET momentum_value == call.close - call.close_10
               change_pct_times_prev == 100 * (call.close - call.prev_close)
           IN  ret =
                   IF momentum_value > 5 /\ change_pct_times_prev > 2 * call.prev_close
                   THEN Signal("strong_buy", 160)
                   ELSE IF momentum_value > 2 /\ change_pct_times_prev > call.prev_close
                   THEN Signal("buy", 120)
                   ELSE IF momentum_value < -5 /\ change_pct_times_prev < -2 * call.prev_close
                   THEN Signal("strong_sell", 160)
                   ELSE IF momentum_value < -2 /\ change_pct_times_prev < -call.prev_close
                   THEN Signal("sell", 120)
                   ELSE Signal("hold", 0)

\* the number of values of the given sign counted back from the latest of
\* the five histogram values h, stopping at the first other value
RunLength(h, sign) ==
    CHOOSE r \in 0..5 :
        /\ \A k \in (5 - r + 1)..5 : h[k] = sign
        /\ r < 5 => h[5 - r] # sign

\* C21: with the band defined (at least 20 bars), a price above the middle
\* band gives sell, with strength 0.8 and volume run * 100 when the latest
\* run of positive histogram values has length run >= 2, else strength 0.5
\* and volume 100; a price below gives buy by the mirrored rule on negative
\* values; a price equal to the band gives hold with volume 0.  On every call
\* the volume is one of 0, 100, ..., 500 and is 0 exactly for hold.
C21_BandAnalyzer ==
    call.op = "analyze_etf_day_trading"
        => /\ ret.trade_volume \in {0, 100, 200, 300, 400, 500}
           /\ ret.trade_volume = 0 <=> ret.signal_type = "hold"
           /\ call.len >= BbPeriod =>
                 LET pos == RunLength(call.histogram, 1)
                     neg == RunLength(call.histogram, -1)
                 IN  ret = IF call.current_price > call.bb_middle
                           THEN IF pos >= 2 THEN EtfSignal("sell", 160, pos * 100)
                                ELSE EtfSignal("sell", 100, 100)
                           ELSE IF call.current_price < call.bb_middle
                           THEN IF neg >= 2 THEN EtfSignal("buy", 160, neg * 100)
                                ELSE EtfSignal("buy", 100, 100)
                           ELSE EtfSignal("hold", 0, 0)

C21_Witness ==
    /\ call.op = "analyze_etf_day_trading"
    /\ call.len >= BbPeriod
    /\ call.histogram = <<1, 1, 1, 1, 1>>
    /\ ret = EtfSignal("sell", 160, 500)

\* the sells of a trade log whose timestamp is strictly later than that of
\* the trade at index b
LaterSells(trs, b) ==
    {s \in 1..Len(trs) : trs[s].action = "sell" /\ trs[s].timestamp.t > trs[b].timestamp.t}

\* the chronologically first of them (the earlier in the log among equals)
FirstLaterSell(trs, b) ==
    CHOOSE s \in LaterSells(trs, b) :
        \A o \in LaterSells(trs, b) :
            \/ trs[s].timestamp.t < trs[o].timestamp.t
            \/ trs[s].timestamp.t = trs[o].timestamp.t /\ s <= o

\* the buys that have a pair, and the profit of a pair
PairedBuys(trs) ==
    {b \in 1..Len(trs) : trs[b].action = "buy" /\ LaterSells(trs, b) # {}}

PnlOfBuy(trs, b) == PairPnl(trs[b], trs[FirstLaterSell(trs, b)])

RECURSIVE SumPnl(_, _)
SumPnl(trs, buys) ==
    IF buys = {} THEN 0
    ELSE LET b == CHOOSE x \in buys : TRUE
         IN  PnlOfBuy(trs, b) + SumPnl(trs, buys \ {b})

WinningBuys(trs) == {b \in PairedBuys(trs) : PnlOfBuy(trs, b) > 0}
LosingBuys(trs) == {b \in PairedBuys(trs) : PnlOfBuy(trs, b) < 0}

\* the counts and the win rate of a result that has at least one pair
PairCountsAsStated(st, trs) ==
    /\ st.total_trades = Cardinality(PairedBuys(trs))
    /\ st.winning_trades = Cardinality(WinningBuys(trs))
    /\ st.losing_trades = Cardinality(LosingBuys(trs))
    /\ st.win_rate = [num |-> Cardinality(WinningBuys(trs)),
                      den |-> Cardinality(PairedBuys(trs))]

\* C22 as stated: each buy is paired with the chronologically first sell of
\* strictly later timestamp, a buy without one gives no pair, win rate =
\* winning pairs / pairs, and profit factor = sum(wins) / |sum(losses)|,
\* infinite whenever there is no losing pair.
C22_TradeStatistics ==
    (pc = "Done" /\ result.status = "result")
        => LET trs == result.trades
               st == result.trade_stats
           IN  /\ PairedBuys(trs) # {} => PairCountsAsStated(st, trs)
               /\ st.profit_factor =
                      IF LosingBuys(trs) = {} THEN InfFactor
                      ELSE Factor(SumPnl(trs, WinningBuys(trs)),
                                  -SumPnl(trs, LosingBuys(trs)))

\* C22 amended: as C22, but the profit factor is infinite only when there is
\* at least one pair and none of the pairs loses; a log without any pair
\* (no trades, or no buy followed by a later sell) reports win rate 0.0 and
\* profit factor 0.0.
C22_TradeStatisticsWithPairs ==
    (pc = "Done" /\ result.status = "result")
        => LET trs == result.trades
               st == result.trade_stats
           IN  IF PairedBuys(trs) = {}
               THEN /\ st.win_rate.num = 0
                    /\ st.winning_trades = 0
                    /\ st.losing_trades = 0
                    /\ st.profit_factor = ZeroFactor
               ELSE /\ PairCountsAsStated(st, trs)
                    /\ st.profit_factor =
                           IF LosingBuys(trs) = {} THEN InfFactor
                           ELSE Factor(SumPnl(trs, WinningBuys(trs)),
                                       -SumPnl(trs, LosingBuys(trs)))

C22_Witness ==
    /\ pc = "Done"
    /\ result.status = "result"
    /\ WinningBuys(result.trades) # {}
    /\ LosingBuys(result.trades) # {}
    /\ \E b \in 1..Len(result.trades) :
          result.trades[b].action = "buy" /\ b \notin PairedBuys(result.trades)
    /\ result.trade_stats.profit_factor.kind = "ratio"

\* the cash the first n trades of the log leave of the initial capital: each
\* buy takes its amount plus commission, each sell gives its amount minus
\* commission
RECURSIVE CashAfter(_, _)
CashAfter(trs, n) ==
    IF n = 0 THEN InitialCapital
    ELSE IF trs[n].action = "buy"
         THEN CashAfter(trs, n - 1) - (trs[n].amount + trs[n].commission)
         ELSE CashAfter(trs, n - 1) + (trs[n].amount - trs[n].commission)

\* a run is in progress
Running == pc \in {"AwaitingData", "StopCheck", "SignalCheck", "EquityUpdate"}

\* C23: in every state the cash is the initial capital minus amount plus
\* commission of every Buy of the log plus amount minus commission of every
\* Sell, and the held volume is the Buy volume minus the Sell volume of the
\* log; during a run cash and held volume change only in a step that appends
\* exactly one trade, and the log changes only by such a step.
C23_AccountingConsistency ==
    /\ [](/\ current_capital = CashAfter(trades, Len(trades))
          /\ current_position.volume = HeldAfter(trades, Len(trades)))
    /\ [][(/\ Running
           /\ \/ current_capital' # current_capital
              \/ current_position'.volume # current_position.volume
              \/ trades' # trades)
            => /\ OneTradeAppended
               /\ current_capital' # current_capital
               /\ current_position'.volume # current_position.volume]_vars

\* at a bar boundary, after a buy, a partial sell and a further trade
C23_Witness ==
    /\ pc = "AwaitingData"
    /\ Len(trades) >= 3
    /\ trades[1].action = "buy"
    /\ trades[2].action = "sell"
    /\ trades[2].volume < trades[1].volume
    /\ current_capital # InitialCapital

\* the reasons of the exits _execute_trade makes
StopReasons == {"stop_loss", "take_profit"}

\* every analysis the five sub-analyzers can produce
AllAnalyses ==
    {Analysis(o1, o2, o3, o4, o5) :
        o1 \in MaOutcomes, o2 \in RsiOutcomes, o3 \in MacdOutcomes,
        o4 \in BbOutcomes, o5 \in VolOutcomes}

\* C24: the strength of the technical analyzer is at most 0.66, below the
\* 0.8 of a full sale; every Sell of the log that takes the whole held volume
\* has reason stop_loss or take_profit, and every other Sell takes at most
\* half of the held volume and leaves a position open.
C24_FullExitOnlyByStop ==
    /\ pc = "Idle" => \A a \in AllAnalyses :
                          /\ SignalStrength(a) <= 132
                          /\ SignalStrength(a) < StrongSellStrength
    /\ signal # NoSignal => signal.signal_strength < StrongSellStrength
    /\ \A k \in 1..Len(trades) :
          trades[k].action = "sell" =>
              LET held == HeldAfter(trades, k - 1)
              IN  /\ trades[k].volume = held => trades[k].reason \in StopReasons
                  /\ trades[k].reason \notin StopReasons =>
                        /\ 2 * trades[k].volume <= held
                        /\ trades[k].volume < held

\* a signal-driven Sell of half the held volume, followed by a stop exit
\* that closed the position
C24_Witness ==
    \E k \in 1..Len(trades) : \E j \in 1..Len(trades) :
        /\ k < j
        /\ trades[k].action = "sell"
        /\ trades[k].reason \notin StopReasons
        /\ 2 * trades[k].volume = HeldAfter(trades, k - 1)
        /\ trades[j].action = "sell"
        /\ trades[j].reason \in StopReasons
        /\ HeldAfter(trades, j) = 0

\* the indices of the buys of a trade log, and the sell the statistics pair
\* with the buy at index b (0 when there is none)
BuysOf(trs) == {b \in 1..Len(trs) : trs[b].action = "buy"}
SellPairedWith(trs, b) == FirstMatchingSell(trs, 1, trs[b].timestamp)

\* every Buy that is followed by another Buy has a pair whose Sell is not
\* later than that next Buy, and no Sell is paired with two Buys
PairingInjective ==
    \A b1 \in BuysOf(trades) : \A b2 \in BuysOf(trades) :
        b1 < b2 =>
            /\ SellPairedWith(trades, b1) # 0
            /\ trades[SellPairedWith(trades, b1)].timestamp.t <= trades[b2].timestamp.t
            /\ SellPairedWith(trades, b1) # SellPairedWith(trades, b2)

\* it holds in the runs whose trades carry the timestamps of the bars
PairingInjectiveOnBarTimestamps == df_kind = "Timestamp" => PairingInjective

\* C25: in every run over a series of bars with distinct dates, no Sell is
\* paired with two different Buys, and the first Sell after each Buy is not
\* later than the next Buy.
C25_PairingInjective == df_kind \in DataKinds => PairingInjective

C27_OrderOnlyAfterPrecheck ==
    trader.order # NoOrder =>
        /\ trader.order.checked # None
        /\ trader.order.side = "buy" =>
              /\ trader.order.checked.kind = "asset"
              /\ trader.order.checked.cash * 1000
                    >= trader.order.price * trader.order.volume * 1001
        /\ trader.order.side = "sell" =>
              /\ trader.order.checked.kind = "position"
              /\ trader.order.checked.volume >= trader.order.volume

\* an order is never submitted when the queried value fails the pre-check
PrecheckRejects ==
    trader.order # NoOrder /\ trader.order.checked # None =>
        IF trader.order.side = "buy"
        THEN trader.order.checked.cash * 1000 >= trader.order.price * trader.order.volume * 1001
        ELSE trader.order.checked.volume >= trader.order.volume

\* the broker's callback cleared the flag during the operation
DisconnectedDuringCall == trader.api # NoApi /\ ~trader.api.connected

\* C28: under every interleaving with on_disconnected, the body of a guarded
\* method calls the broker only while is_connected is true and after the
\* guard passed; when is_connected was false at entry, exactly one reconnect
\* is made; when the reconnect or the verification fails the operation
\* returns None without a broker call of the body.
C28_GuardedCalls ==
    /\ trader.api # NoApi => trader.api.connected /\ trader.guard = "passed"
    /\ (trader.guard \in {"passed", "failed"} /\ ~trader.entry_connected)
          => trader.reconnects = 1
    /\ (trader.stack = <<>> /\ ~trader.entry_connected /\ trader.result \notin {Unset, Pending})
          => trader.reconnects = 1
    /\ trader.guard = "failed" =>
          /\ trader.stack = <<>>
          /\ trader.result = None
          /\ trader.api = NoApi

\* the part of it that no interleaving breaks: a body runs only after its
\* guard passed, and a failed guard returns None without a call of the body
GuardBeforeBody ==
    /\ trader.api # NoApi => trader.guard = "passed"
    /\ trader.guard = "failed" =>
          /\ trader.stack = <<>>
          /\ trader.result = None
          /\ trader.api = NoApi

\* C29: the live engine submits an order only inside a trading session (a
\* weekday, 09:30-11:30 or 13:00-15:00), whatever scheduled task submits it.
C29_OrdersOnlyInSession ==
    live.order # NoOrder => InSession(live.weekday, live.minute)

\* it holds for the two tasks that carry the session guard
GuardedTasksOnlyInSession ==
    (live.order # NoOrder /\ live.task \in {"_scheduled_signal_check", "_scheduled_stop_check"})
        => InSession(live.weekday, live.minute)

\* C30: the volume of every sell order of a signal-driven sell or of a
\* position reduction is a positive multiple of 100 and at most the usable
\* volume of the position.
C30_SellVolumeWithinUsable ==
    (live.order # NoOrder /\ live.order.side = "sell"
        /\ live.order.reason \in {"signal", "reduce"})
        => /\ live.order.volume > 0
           /\ live.order.volume % 100 = 0
           /\ live.order.volume <= live.order.usable

\* the part of it that holds: a positive number of whole lots
SellVolumeWholeLots ==
    (live.order # NoOrder /\ live.order.side = "sell"
        /\ live.order.reason \in {"signal", "reduce"})
        => /\ live.order.volume > 0
           /\ live.order.volume % 100 = 0

====
